---- MODULE Spec2Model ----
(***************************************************************************)
(* Verification model of the Agentic-AI demo applications.                 *)
(*                                                                         *)
(*   Spec      Traveller Agent App: TravelCoordinator.process_request used *)
(*             as main.py and demo.py use it, one call awaited at a time.  *)
(*   SpecConc  the same coordinator with calls that interleave at their    *)
(*             await points (several tasks on one event loop).             *)
(*   SpecApps  Career Mentor, Game Master and Student Agent apps: one of   *)
(*             them per behaviour, driven through its entry points.        *)
(***************************************************************************)
EXTENDS Integers, Sequences, FiniteSets, TLC

\* ------------------------------------------------------------------ bounds
MaxTasks == 2          \* process_request calls made on one coordinator
MaxTicks == 1          \* advances of the wall clock in one behaviour
MaxParts   == 2        \* pieces a user query is put together from
MaxQuests  == 3        \* quests accepted in one game
MaxHistory == 4        \* messages kept in a Game Master agent's history
MaxModifications == 1  \* modify_plan calls made on one coordinator

\* ------------------------------------------------------- program constants
MAX_RETRIES     == 3   \* Config.MAX_RETRIES
TIMEOUT_SECONDS == 30  \* Config.TIMEOUT_SECONDS
HistoryWindow   == 5   \* BaseAgent._build_prompt: conversation_history[-5:]

Tasks == 1..MaxTasks

\* ---------------------------------------------------------------- strings
\* A Python str is a sequence of one-character strings.
LowerChars == <<"a", "b", "c", "d", "e", "f", "g", "h", "i", "j", "k", "l", "m", "n", "o", "p", "q", "r", "s", "t", "u", "v", "w", "x", "y", "z">>

UpperChars == <<"A", "B", "C", "D", "E", "F", "G", "H", "I", "J", "K", "L", "M", "N", "O", "P", "Q", "R", "S", "T", "U", "V", "W", "X", "Y", "Z">>

\* str.lower() on one character (ASCII letters).
lower_char(c) ==
    IF \E i \in 1..Len(UpperChars) : UpperChars[i] = c
    THEN LowerChars[CHOOSE i \in 1..Len(UpperChars) : UpperChars[i] = c]
    ELSE c

upper_char(c) ==
    IF \E i \in 1..Len(LowerChars) : LowerChars[i] = c
    THEN UpperChars[CHOOSE i \in 1..Len(LowerChars) : LowerChars[i] = c]
    ELSE c

lower(str) == [i \in 1..Len(str) |-> lower_char(str[i])]

upper(str) == [i \in 1..Len(str) |-> upper_char(str[i])]

\* Python's "word in text" on strings: word occurs as a substring.
in_str(word, text) ==
    \E i \in 0..(Len(text) - Len(word)) :
        SubSeq(text, i + 1, i + Len(word)) = word

\* any(word in text for word in words)
any_in(words, text) == \E k \in 1..Len(words) : in_str(words[k], text)

\* --------------------------------------------------------------- models.py
TravelMood == {"adventure", "relaxation", "culture", "food",
               "nature", "urban", "beach", "mountains"}

BudgetLevel == {"budget", "moderate", "luxury"}

NotEnum  == "plain_str"   \* a mood passed as a plain string, not a TravelMood
NoneDate == 0 - 1         \* start_date / end_date is None
BadDate  == 0 - 2         \* a start_date given as a str instead of a date

\* TravelRequest, the fields the workflow reads; destination_preferences and
\* special_requirements are empty lists when the request is made.
TravelRequest(mood, budget, start_date, end_date) ==
    [mood |-> mood, budget |-> budget,
     start_date |-> start_date, end_date |-> end_date,
     destination_preferences |-> << >>, special_requirements |-> << >>]

\* The requests the callers pass; dates are day numbers.
Requests ==
    { TravelRequest("adventure", "budget", NoneDate, NoneDate),  \* no dates
      TravelRequest("culture", "moderate", 1, 2),                \* one night
      TravelRequest("adventure", "luxury", 1, 1),                \* same-day trip
      TravelRequest("adventure", "budget", BadDate, NoneDate),   \* str start_date
      TravelRequest("culture", "luxury", BadDate, 1),            \* str start, date end
      TravelRequest(NotEnum, "moderate", NoneDate, NoneDate) }   \* mood not an enum

\* The requests of interleaved calls.
InterleavedRequests ==
    { TravelRequest("adventure", "budget", NoneDate, NoneDate),
      TravelRequest("adventure", "luxury", 1, 1) }

NoRequest == [mood |-> "none", budget |-> "none",
              start_date |-> NoneDate, end_date |-> NoneDate,
              destination_preferences |-> << >>, special_requirements |-> << >>]

\* AgentResponse.  message is <<fixed text, embedded text>>: the embedded text
\* is str(e) in an error message and the Gemini text in a success message.
\* raised is TRUE when the call did not return a response but let an
\* exception propagate to its caller.
NoResponse ==
    [raised |-> FALSE, success |-> FALSE, message |-> <<"none", "none">>,
     data |-> "none", agent_name |-> "none"]

AgentResponse(success, message, data, agent_name) ==
    [raised |-> FALSE, success |-> success, message |-> message,
     data |-> data, agent_name |-> agent_name]

Raised(exc) ==
    [raised |-> TRUE, success |-> FALSE, message |-> <<"raise", exc>>,
     data |-> "none", agent_name |-> "none"]

\* ------------------------------------------------------------ mock_data.py
\* MockDataGenerator.generate_destinations, in list order.
Destinations == <<
    [name |-> "Bali", country |-> "Indonesia",
     mood_suitability |-> {"relaxation", "culture", "beach"},
     budget_range |-> "moderate"],
    [name |-> "Tokyo", country |-> "Japan",
     mood_suitability |-> {"urban", "culture", "food"},
     budget_range |-> "moderate"],
    [name |-> "Paris", country |-> "France",
     mood_suitability |-> {"culture", "food", "urban"},
     budget_range |-> "moderate"],
    [name |-> "New York", country |-> "USA",
     mood_suitability |-> {"urban", "culture", "food"},
     budget_range |-> "moderate"],
    [name |-> "Swiss Alps", country |-> "Switzerland",
     mood_suitability |-> {"adventure", "mountains", "nature"},
     budget_range |-> "luxury"] >>

\* The characters of a destination's name or country.
Chars(str) ==
    CASE str = "Bali" -> <<"B", "a", "l", "i">>
      [] str = "Indonesia" -> <<"I", "n", "d", "o", "n", "e", "s", "i", "a">>
      [] str = "Tokyo" -> <<"T", "o", "k", "y", "o">>
      [] str = "Japan" -> <<"J", "a", "p", "a", "n">>
      [] str = "Paris" -> <<"P", "a", "r", "i", "s">>
      [] str = "France" -> <<"F", "r", "a", "n", "c", "e">>
      [] str = "New York" -> <<"N", "e", "w", " ", "Y", "o", "r", "k">>
      [] str = "USA" -> <<"U", "S", "A">>
      [] str = "Swiss Alps" -> <<"S", "w", "i", "s", "s", " ", "A", "l", "p", "s">>
      [] str = "Switzerland" -> <<"S", "w", "i", "t", "z", "e", "r", "l", "a", "n", "d">>

\* ----------------------------------------------------- destination_agent.py
budget_hierarchy(b) ==
    CASE b = "budget"   -> 1
      [] b = "moderate" -> 2
      [] b = "luxury"   -> 3

_is_budget_compatible(dest_budget, user_budget) ==
    budget_hierarchy(dest_budget) <= budget_hierarchy(user_budget)

\* "preference.lower() in destination.name.lower() or preference.lower() in
\* destination.country.lower()"
preference_matches(preference, dest) ==
    \/ in_str(lower(preference), lower(Chars(dest.name)))
    \/ in_str(lower(preference), lower(Chars(dest.country)))

\* _calculate_match_score in hundredths (0.4 -> 40, 0.3 -> 30, 0.1 -> 10 for
\* each matching preference).  special_requirements stays the empty list in
\* every request the program handles, so its loop adds nothing.
_calculate_match_score(dest, request) ==
    LET mood_part   == IF request.mood \in dest.mood_suitability THEN 40 ELSE 0
        budget_part == IF _is_budget_compatible(dest.budget_range, request.budget)
                       THEN 30 ELSE 0
        preferences == request.destination_preferences
        pref_part   == 10 * Cardinality({k \in 1..Len(preferences) :
                                            preference_matches(preferences[k], dest)})
        score       == mood_part + budget_part + pref_part
    IN  IF score < 100 THEN score ELSE 100

\* Variant of _filter_destinations without the "close matches" fallback.
_filter_destinations_exact_only(request) ==
    LET exact(d) == /\ request.mood \in d.mood_suitability
                    /\ _is_budget_compatible(d.budget_range, request.budget)
    IN  SelectSeq(Destinations, exact)

\* _filter_destinations: the destinations suited to the mood and within the
\* budget; when there is none, every destination whose match score is above
\* 0.3.
_filter_destinations(request) ==
    LET exact(d) == /\ request.mood \in d.mood_suitability
                    /\ _is_budget_compatible(d.budget_range, request.budget)
        close(d) == _calculate_match_score(d, request) > 30
        filtered == SelectSeq(Destinations, exact)
    IN  IF filtered # << >> THEN filtered ELSE SelectSeq(Destinations, close)

\* Trip duration as the agents compute it: (end_date - start_date).days when
\* both dates are truthy, else 7.  Only called when start_date is a date.
Truthy(d) == d # NoneDate

_calculate_duration(request) ==
    IF Truthy(request.start_date) /\ Truthy(request.end_date)
    THEN request.end_date - request.start_date
    ELSE 7

\* Index of the first destination with the highest match score among the
\* first n entries of ds: recommendations are built from the first five
\* filtered destinations and sorted by match_score, descending and stable.
RECURSIVE BestIndex(_, _, _)
BestIndex(ds, request, n) ==
    IF n <= 1 THEN 1
    ELSE LET b == BestIndex(ds, request, n - 1)
         IN  IF _calculate_match_score(ds[n], request)
                  > _calculate_match_score(ds[b], request)
             THEN n ELSE b

Min(a, b) == IF a < b THEN a ELSE b

\* list.sort(key=match_score, reverse=True): stable, highest score first.
RECURSIVE insert_by_score(_, _)
insert_by_score(sorted, r) ==
    IF sorted = << >> THEN <<r>>
    ELSE IF Head(sorted).match_score >= r.match_score
         THEN <<Head(sorted)>> \o insert_by_score(Tail(sorted), r)
         ELSE <<r>> \o sorted

RECURSIVE sort_by_match_score(_)
sort_by_match_score(rs) ==
    IF rs = << >> THEN << >>
    ELSE insert_by_score(sort_by_match_score(SubSeq(rs, 1, Len(rs) - 1)),
                         rs[Len(rs)])

\* process_request, lines 74-86: a recommendation for each of the first five
\* filtered destinations, sorted by match score.
recommendations(request) ==
    LET ds == _filter_destinations(request)
    IN  sort_by_match_score(
            [i \in 1..Min(Len(ds), 5) |->
                [destination |-> ds[i],
                 match_score |-> _calculate_match_score(ds[i], request)]])

\* Number of recommendations DestinationAgent.process_request returns.
recommendations_count(request) == Min(Len(_filter_destinations(request)), 5)

\* recommendations[0]["destination"], by name.
selected_destination(request) ==
    LET ds == _filter_destinations(request)
    IN  ds[BestIndex(ds, request, Min(Len(ds), 5))].name

\* ------------------------------------------------------------ Traveller state
VARIABLES
    now,                   \* wall clock, in seconds
    hasModel,              \* BaseAgent.model is set (Config.GEMINI_API_KEY given)
    active_sessions,       \* TravelCoordinator.active_sessions
    conversation_history,  \* BaseAgent.conversation_history, per agent
    current_session,       \* TravelAgentApp.current_session
    pc,                    \* position of each process_request call
    req,                   \* the call's request argument
    session_id,            \* the call's local session_id
    responses,             \* the call's destination/booking/explore responses
    gemini,                \* the string call_gemini last returned to the call
    worker,                \* the thread-pool job of the call's asyncio.to_thread
    result,                \* what process_request returned to its caller
    calls,                 \* agents whose process_request the call has invoked
    running,               \* the task the event loop is executing (0: none)
    accesses               \* <<thread, object>> pairs of shared-state accesses

travelVars == <<now, hasModel, active_sessions, conversation_history,
                current_session, pc, req, session_id, responses, gemini,
                worker, result, calls, running, accesses>>

\* ------------------------------------------------------------ other apps' state
VARIABLES
    app,       \* the app this behaviour runs: "travel", "career", "game", "student"
    career,    \* Career Mentor: configuration, agents, last query and reply
    game,      \* Game Master: an agent's history and its last reply
    player,    \* Game Master: GameState.player (level, experience, gold, ...)
    quests,    \* Game Master: GameState.player.quests
    last_op,   \* Game Master: the GameState call made last and its result
    student    \* Student Agent: the last entry point run and how it ended

appVars == <<app, career, game, player, quests, last_op, student>>

\* ------------------------------------------------- state of the further entry points
VARIABLES
    tool,      \* Career Mentor CareerTools / DestinationAgent: the last call and its result
    runner,    \* Game Master: GameRunner (running, combat) and what it has printed
    session_call  \* Traveller: the last modify_plan / get_session_status call

extVars == <<tool, runner, session_call>>

vars == <<travelVars, appVars, extVars>>

AgentNames == {"TravelCoordinator", "DestinationAgent", "BookingAgent", "ExploreAgent"}

NoSession == 0 - 1

NoJob == [state |-> "none", agent |-> "none", prompt |-> << >>,
          input |-> << >>, outcome |-> "none", started |-> 0]

NoResponses == [destination |-> NoResponse, booking |-> NoResponse,
                explore |-> NoResponse]

WaitPcs == {"destination_wait", "booking_wait", "explore_wait", "summary_wait"}

StepWaitPcs == {"destination_wait", "booking_wait", "explore_wait"}

PostOf(p) ==
    CASE p = "destination_wait" -> "destination_post"
      [] p = "booking_wait"     -> "booking_post"
      [] p = "explore_wait"     -> "explore_post"
      [] p = "summary_wait"     -> "summary_post"

InFlight(t) == pc[t] \notin {"idle", "returned", "done"}

\* session_id = f"session_{datetime.now().strftime('%Y%m%d_%H%M%S')}": one id
\* per clock second.
SessionId(clock) == clock

NewSession(request) ==
    [request |-> request, status |-> "started",
     steps_completed |-> << >>, results |-> {}]

\* BaseAgent.add_to_history: the entry's role and the call it belongs to.
add_to_history(h, agent, role, t) ==
    [h EXCEPT ![agent] = Append(@, <<role, t>>)]

LastN(s, n) == IF Len(s) <= n THEN s ELSE SubSeq(s, Len(s) - n + 1, Len(s))

\* BaseAgent._build_prompt: the prompt string is made of the agent's name and
\* tools, the last five history messages, and the user request.
_build_prompt(h, agent, t) ==
    <<agent, LastN(h[agent], HistoryWindow), t>>

LoopAccess == {<<"loop", "conversation_history">>, <<"loop", "active_sessions">>}

\* The event loop can run a block of task t: it is idle, or is already inside
\* t's synchronous code.
LoopFree == running = 0
LoopAt(t) == running = t

\* BaseAgent.call_gemini up to its await: without a model it returns the mock
\* response at once; with one it builds the prompt on the event loop and
\* hands model.generate_content(full_prompt) to a worker thread.
CallGemini(t, h, agent, waitPc, postPc) ==
    IF ~hasModel
    THEN /\ gemini' = [gemini EXCEPT ![t] = "mock"]
         /\ worker' = worker
         /\ pc' = [pc EXCEPT ![t] = postPc]
         /\ running' = t
    ELSE /\ gemini' = gemini
         /\ worker' = [worker EXCEPT ![t] =
                [state |-> "queued", agent |-> agent,
                 prompt |-> _build_prompt(h, agent, t),
                 input |-> << >>, outcome |-> "none", started |-> now]]
         /\ pc' = [pc EXCEPT ![t] = waitPc]
         /\ running' = 0

\* ---------------------------------------------- travel_coordinator.py, agents
\* Variant of RecordStep with compensation: a failed step rolls the session
\* back and marks it failed.
RecordStepWithRollback(session, step, response) ==
    IF response.success
    THEN [session EXCEPT !.steps_completed = Append(@, step),
                         !.results = @ \cup {step}]
    ELSE [session EXCEPT !.status = "failed", !.steps_completed = << >>,
                         !.results = {}]

\* The handoff helpers record a step only when the agent reported success.
RecordStep(session, step, response) ==
    IF response.success
    THEN [session EXCEPT !.steps_completed = Append(@, step),
                         !.results = @ \cup {step}]
    ELSE session

\* Variant of AfterStep without the success test: the workflow goes on after
\* a failed step.
AfterStepIgnoringFailure(response, nextPc) == nextPc

\* process_request: "if not <step>_response.success: return <step>_response".
AfterStep(response, nextPc) ==
    IF ~response.success THEN "returned" ELSE nextPc

\* Variant of CoordinationError without the outer try/except: the exception
\* leaves process_request.
CoordinationErrorReraised(exc) == Raised(exc)

\* process_request: "except Exception as e: return self.create_response(...)".
CoordinationError(exc) ==
    AgentResponse(FALSE, <<"Error in travel coordination: ", exc>>, "None",
                  "TravelCoordinator")

\* DestinationAgent.process_request after call_gemini.  _estimate_cost
\* subtracts the dates when both are truthy, a TypeError when start_date is a
\* str; the agent's own except turns it into a failure response.
DestinationResponse(request, text) ==
    IF /\ recommendations_count(request) > 0
       /\ request.start_date = BadDate
       /\ Truthy(request.end_date)
    THEN AgentResponse(FALSE, <<"Error processing destination request: ", "TypeError">>,
                       "None", "DestinationAgent")
    ELSE AgentResponse(TRUE, <<"destinations", text>>, "recommendations",
                       "DestinationAgent")

\* BookingAgent.process_request after call_gemini.  generate_flights calls
\* datetime.combine(start_date, ...), a TypeError when start_date is a str.
BookingResponse(request, text) ==
    IF request.start_date = BadDate
    THEN AgentResponse(FALSE, <<"Error processing booking request: ", "TypeError">>,
                       "None", "BookingAgent")
    ELSE AgentResponse(TRUE, <<"booking options", text>>, "booking_summary",
                       "BookingAgent")

\* ExploreAgent.process_request after call_gemini.  _create_itinerary divides
\* by the trip duration, a ZeroDivisionError for a same-day trip.
ExploreResponse(request, text) ==
    IF _calculate_duration(request) = 0
    THEN AgentResponse(FALSE, <<"Error processing exploration request: ",
                                "ZeroDivisionError">>, "None", "ExploreAgent")
    ELSE AgentResponse(TRUE, <<"things to explore", text>>, "exploration_summary",
                       "ExploreAgent")

\* process_request, lines 52-60: the session entry is written under the id of
\* the current second, then the request is described in the history; reading
\* request.mood.value raises AttributeError when mood is not a TravelMood.
ProcessRequestStart(t, r) ==
    /\ pc[t] = "idle"
    /\ LoopFree
    /\ \A u \in Tasks : u < t => pc[u] # "idle"
    /\ req' = [req EXCEPT ![t] = r]
    /\ session_id' = [session_id EXCEPT ![t] = SessionId(now)]
    /\ active_sessions' = (SessionId(now) :> NewSession(r)) @@ active_sessions
    /\ accesses' = accesses \cup LoopAccess
    /\ IF r.mood \in TravelMood
       THEN /\ conversation_history' =
                   add_to_history(conversation_history, "TravelCoordinator", "user", t)
            /\ pc' = [pc EXCEPT ![t] = "handoff_destination"]
            /\ running' = t
            /\ result' = result
       ELSE /\ conversation_history' = conversation_history
            /\ pc' = [pc EXCEPT ![t] = "returned"]
            /\ running' = 0
            /\ result' = [result EXCEPT ![t] = CoordinationError("AttributeError")]
    /\ UNCHANGED <<now, hasModel, current_session, responses, gemini,
                   worker, calls>>
    /\ UNCHANGED appVars
    /\ UNCHANGED extVars

\* Handing a step to its agent: the coordinator logs the handoff, the agent
\* logs the request and starts its Gemini call.
Handoff(t, fromPc, agent, waitPc, postPc) ==
    /\ pc[t] = fromPc
    /\ LoopAt(t)
    /\ LET h1 == add_to_history(conversation_history, "TravelCoordinator", "system", t)
           h2 == add_to_history(h1, agent, "user", t)
       IN  /\ conversation_history' = h2
           /\ CallGemini(t, h2, agent, waitPc, postPc)
    /\ calls' = [calls EXCEPT ![t] = Append(@, agent)]
    /\ accesses' = accesses \cup {<<"loop", "conversation_history">>}
    /\ UNCHANGED <<now, hasModel, active_sessions, current_session, req,
                   session_id, responses, result>>
    /\ UNCHANGED appVars
    /\ UNCHANGED extVars

_handoff_to_destination_agent(t) ==
    Handoff(t, "handoff_destination", "DestinationAgent",
            "destination_wait", "destination_post")

_handoff_to_booking_agent(t) ==
    Handoff(t, "handoff_booking", "BookingAgent", "booking_wait", "booking_post")

_handoff_to_explore_agent(t) ==
    Handoff(t, "handoff_explore", "ExploreAgent", "explore_wait", "explore_post")

\* Variant of GenerateInput in which the prompt is built inside the worker
\* thread, from the agent's history as it is when the worker runs.
GenerateInputLive(t) == _build_prompt(conversation_history, worker[t].agent, t)

\* What model.generate_content is given: the full_prompt argument that
\* asyncio.to_thread received, a string built before the call was handed over.
GenerateInput(t) == worker[t].prompt

\* The worker thread runs model.generate_content(full_prompt); the call
\* returns a response or raises.  A call that never returns is a job that
\* stays queued.
GenerateContent(t, outcome) ==
    /\ worker[t].state = "queued"
    /\ worker' = [worker EXCEPT ![t].state = "done",
                                ![t].input = GenerateInput(t),
                                ![t].outcome = outcome]
    /\ accesses' = accesses \cup {<<"worker", "full_prompt">>}
    /\ UNCHANGED <<now, hasModel, active_sessions, conversation_history,
                   current_session, pc, req, session_id, responses, gemini,
                   result, calls, running>>
    /\ UNCHANGED appVars
    /\ UNCHANGED extVars

\* Variant of CallReturned with the timeout applied (asyncio.wait_for with
\* Config.TIMEOUT_SECONDS): the await also ends when the time is up.
CallReturnedOrTimedOut(t) ==
    \/ worker[t].state = "done"
    \/ worker[t].state = "queued" /\ now - worker[t].started >= TIMEOUT_SECONDS

\* "await asyncio.to_thread(...)" completes only when the worker's call has
\* finished; call_gemini applies neither TIMEOUT_SECONDS nor MAX_RETRIES.
CallReturned(t) == worker[t].state = "done"

\* Variant of call_gemini_text without the try/except: the exception of
\* generate_content leaves call_gemini.
call_gemini_reraising(outcome) ==
    IF outcome = "ok" THEN "text" ELSE "raised"

\* call_gemini, lines 45-54: response.text, or from its except branch the
\* string "Error: Unable to process request - ...".
call_gemini_text(outcome) ==
    IF outcome = "ok" THEN "text" ELSE "error"

\* call_gemini after its await.
CallGeminiResume(t) ==
    /\ pc[t] \in WaitPcs
    /\ LoopFree
    /\ CallReturned(t)
    /\ gemini' = [gemini EXCEPT ![t] = call_gemini_text(worker[t].outcome)]
    /\ worker' = [worker EXCEPT ![t] = NoJob]
    /\ pc' = [pc EXCEPT ![t] = PostOf(pc[t])]
    /\ running' = t
    /\ UNCHANGED <<now, hasModel, active_sessions, conversation_history,
                   current_session, req, session_id, responses, result, calls,
                   accesses>>
    /\ UNCHANGED appVars
    /\ UNCHANGED extVars

\* The rest of a step: the agent logs the Gemini text and builds its
\* response, the handoff helper records the step, and process_request either
\* returns the failure or goes on.  After the destination step it reads
\* recommendations[0], an IndexError when the list is empty.
StepPost(t, fromPc, step, agent, response, nextPc) ==
    /\ pc[t] = fromPc
    /\ LoopAt(t)
    /\ conversation_history' =
           add_to_history(conversation_history, agent, "assistant", t)
    /\ responses' = [responses EXCEPT ![t][step] = response]
    /\ active_sessions' = [active_sessions EXCEPT ![session_id[t]] =
                               RecordStep(@, step, response)]
    /\ accesses' = accesses \cup LoopAccess
    /\ LET indexError == /\ step = "destination"
                         /\ response.success
                         /\ recommendations_count(req[t]) = 0
           next == IF indexError THEN "returned" ELSE AfterStep(response, nextPc)
       IN  /\ pc' = [pc EXCEPT ![t] = next]
           /\ running' = IF next = "returned" THEN 0 ELSE t
           /\ result' = [result EXCEPT ![t] =
                  IF indexError THEN CoordinationError("IndexError")
                  ELSE IF next = "returned" THEN response ELSE @]
    /\ UNCHANGED <<now, hasModel, current_session, req, session_id,
                   gemini, worker, calls>>
    /\ UNCHANGED appVars
    /\ UNCHANGED extVars

DestinationPost(t) ==
    StepPost(t, "destination_post", "destination", "DestinationAgent",
             DestinationResponse(req[t], gemini[t]), "handoff_booking")

BookingPost(t) ==
    StepPost(t, "booking_post", "booking", "BookingAgent",
             BookingResponse(req[t], gemini[t]), "handoff_explore")

ExplorePost(t) ==
    StepPost(t, "explore_post", "explore", "ExploreAgent",
             ExploreResponse(req[t], gemini[t]), "create_plan")

\* process_request, lines 78-88: the plan is built, the session is marked
\* completed and given its final_plan, then the summary is asked of Gemini.
_create_complete_plan(t) ==
    /\ pc[t] = "create_plan"
    /\ LoopAt(t)
    /\ active_sessions' = [active_sessions EXCEPT ![session_id[t]] =
           [@ EXCEPT !.status = "completed", !.results = @ \cup {"final_plan"}]]
    /\ CallGemini(t, conversation_history, "TravelCoordinator",
                  "summary_wait", "summary_post")
    /\ accesses' = accesses \cup LoopAccess
    /\ UNCHANGED <<now, hasModel, conversation_history, current_session,
                   req, session_id, responses, result, calls>>
    /\ UNCHANGED appVars
    /\ UNCHANGED extVars

\* process_request, lines 90-111: the success response.
FinalResponse(t) ==
    /\ pc[t] = "summary_post"
    /\ LoopAt(t)
    /\ result' = [result EXCEPT ![t] =
           AgentResponse(TRUE, <<"Your complete travel plan is ready!", gemini[t]>>,
                         "travel_plan", "TravelCoordinator")]
    /\ pc' = [pc EXCEPT ![t] = "returned"]
    /\ running' = 0
    /\ UNCHANGED <<now, hasModel, active_sessions, conversation_history,
                   current_session, req, session_id, responses, gemini, worker,
                   calls, accesses>>
    /\ UNCHANGED appVars
    /\ UNCHANGED extVars

\* The caller (TravelAgentApp._create_travel_plan) takes the response and
\* remembers the session of a successful plan; the call's locals are gone.
ReceiveResponse(t) ==
    /\ pc[t] = "returned"
    /\ LoopFree
    /\ current_session' =
           IF result[t].success THEN session_id[t] ELSE current_session
    /\ pc' = [pc EXCEPT ![t] = "done"]
    /\ req' = [req EXCEPT ![t] = NoRequest]
    /\ responses' = [responses EXCEPT ![t] = NoResponses]
    /\ gemini' = [gemini EXCEPT ![t] = "none"]
    /\ result' = [result EXCEPT ![t] = NoResponse]
    /\ UNCHANGED <<now, hasModel, active_sessions, conversation_history,
                   session_id, worker, calls, running, accesses>>
    /\ UNCHANGED appVars
    /\ UNCHANGED extVars

\* Time passes; the clock is observed once per timeout period.
Tick ==
    /\ now < MaxTicks * TIMEOUT_SECONDS
    /\ LoopFree
    /\ now' = now + TIMEOUT_SECONDS
    /\ UNCHANGED <<hasModel, active_sessions, conversation_history,
                   current_session, pc, req, session_id, responses, gemini,
                   worker, result, calls, running, accesses>>
    /\ UNCHANGED appVars
    /\ UNCHANGED extVars

TravelInit ==
    /\ now = 0
    /\ hasModel \in BOOLEAN
    /\ active_sessions = << >>
    /\ conversation_history = [a \in AgentNames |-> << >>]
    /\ current_session = NoSession
    /\ pc = [t \in Tasks |-> "idle"]
    /\ req = [t \in Tasks |-> NoRequest]
    /\ session_id = [t \in Tasks |-> NoSession]
    /\ responses = [t \in Tasks |-> NoResponses]
    /\ gemini = [t \in Tasks |-> "none"]
    /\ worker = [t \in Tasks |-> NoJob]
    /\ result = [t \in Tasks |-> NoResponse]
    /\ calls = [t \in Tasks |-> << >>]
    /\ running = 0
    /\ accesses = {}

\* main.py and demo.py await each call before they make the next one.
NoCallInFlight == \A u \in Tasks : pc[u] \in {"idle", "done"}

StartAwaited(t) == NoCallInFlight /\ \E r \in Requests : ProcessRequestStart(t, r)

\* process_request is a coroutine: a second call can be started as a task
\* while the first is suspended at an await.
StartInterleaved(t) ==
    /\ t \in {1, 2}
    /\ \E r \in InterleavedRequests : ProcessRequestStart(t, r)

TaskStep(t) ==
    \/ _handoff_to_destination_agent(t)
    \/ DestinationPost(t)
    \/ _handoff_to_booking_agent(t)
    \/ BookingPost(t)
    \/ _handoff_to_explore_agent(t)
    \/ ExplorePost(t)
    \/ _create_complete_plan(t)
    \/ FinalResponse(t)
    \/ CallGeminiResume(t)
    \/ ReceiveResponse(t)
    \/ \E o \in {"ok", "raise"} : GenerateContent(t, o)

\* ------------------------------------ travel_coordinator.py: session methods
\* The ids a caller can hold: one per clock second a call can start in.
SessionIds == { SessionId(k * TIMEOUT_SECONDS) : k \in 0..MaxTicks }

\* What TravelAgentApp._modify_plan can put into modifications: new
\* destination preferences, a new budget level, or new special requirements.
Modifications ==
    { [key |-> "destination",
       value |-> << <<"j", "a", "p", "a", "n">>, <<"A", "L", "P", "S">> >>],
      [key |-> "budget", value |-> "luxury"],
      [key |-> "requirements", value |-> << <<"s", "p", "a">> >>] }

NoSessionCall ==
    [op |-> "none", session_id |-> NoSession, modifications |-> [key |-> "none"],
     before |-> "none", response |-> NoResponse, count |-> 0]

SessionNotFound(sid) ==
    AgentResponse(FALSE, <<"Session not found", sid>>, "None", "TravelCoordinator")

\* Variant of modified_status that leaves the status as it was.
modified_status_kept(session) == session.status

\* modify_plan, line 256: session["status"] = "modified".
modified_status(session) == "modified"

\* modify_plan, lines 251-256: only the "destination" key is looked at.  The
\* session's request object gets the new preferences appended, the destination
\* agent runs again through the handoff helper (which appends the step when
\* the agent succeeds), and on success the status becomes "modified".
apply_modifications(session, modifications, text) ==
    IF modifications.key = "destination"
    THEN LET request == [session.request EXCEPT
                            !.destination_preferences = @ \o modifications.value]
             destination_response == DestinationResponse(request, text)
             handed == RecordStep([session EXCEPT !.request = request],
                                  "destination", destination_response)
         IN  IF destination_response.success
             THEN [handed EXCEPT !.status = modified_status(handed)]
             ELSE handed
    ELSE session

\* No modify_plan / get_session_status response is waiting for its caller.
SessionCallIdle == session_call.op = "none"

\* TravelCoordinator.modify_plan, awaited by its caller.  outcome is that of
\* model.generate_content inside the destination agent's call_gemini.
modify_plan(sid, modifications, outcome) ==
    /\ app = "travel"
    /\ NoCallInFlight
    /\ SessionCallIdle
    /\ LoopFree
    /\ session_call.count < MaxModifications
    /\ hasModel \/ outcome = "ok"
    /\ IF sid \notin DOMAIN active_sessions
       THEN /\ session_call' = [op |-> "modify_plan", session_id |-> sid,
                                modifications |-> modifications,
                                before |-> "none",
                                response |-> SessionNotFound(sid),
                                count |-> session_call.count + 1]
            /\ UNCHANGED <<active_sessions, conversation_history, accesses>>
       ELSE LET text == IF hasModel THEN call_gemini_text(outcome) ELSE "mock"
                rerun == modifications.key = "destination"
                h1 == add_to_history(conversation_history, "TravelCoordinator",
                                     "system", 0)
                h2 == add_to_history(h1, "DestinationAgent", "user", 0)
                h3 == add_to_history(h2, "DestinationAgent", "assistant", 0)
            IN  /\ active_sessions' = [active_sessions EXCEPT ![sid] =
                       apply_modifications(@, modifications, text)]
                /\ conversation_history' = IF rerun THEN h3 ELSE conversation_history
                /\ accesses' = accesses \cup LoopAccess
                       \cup (IF rerun /\ hasModel
                             THEN {<<"worker", "full_prompt">>} ELSE {})
                /\ session_call' =
                       [op |-> "modify_plan", session_id |-> sid,
                        modifications |-> modifications,
                        before |-> active_sessions[sid].status,
                        response |->
                            AgentResponse(TRUE, <<"Plan modified successfully", sid>>,
                                          "session", "TravelCoordinator"),
                        count |-> session_call.count + 1]
    /\ UNCHANGED <<now, hasModel, current_session, pc, req, session_id,
                   responses, gemini, worker, result, calls, running>>
    /\ UNCHANGED appVars
    /\ UNCHANGED <<tool, runner>>

\* TravelCoordinator.get_session_status, awaited by its caller.
get_session_status(sid) ==
    /\ app = "travel"
    /\ NoCallInFlight
    /\ SessionCallIdle
    /\ LoopFree
    /\ session_call' =
           [session_call EXCEPT
               !.op = "get_session_status",
               !.session_id = sid,
               !.modifications = [key |-> "none"],
               !.before = "none",
               !.response =
                   IF sid \notin DOMAIN active_sessions
                   THEN SessionNotFound(sid)
                   ELSE AgentResponse(TRUE, <<"status", active_sessions[sid].status>>,
                                      "session", "TravelCoordinator")]
    /\ UNCHANGED travelVars
    /\ UNCHANGED appVars
    /\ UNCHANGED <<tool, runner>>


\* The caller (TravelAgentApp._modify_plan, _view_session_status) prints what
\* the response says and drops it.
ReceiveSessionResponse ==
    /\ app = "travel"
    /\ ~SessionCallIdle
    /\ session_call' = [NoSessionCall EXCEPT !.count = session_call.count]
    /\ UNCHANGED travelVars
    /\ UNCHANGED appVars
    /\ UNCHANGED <<tool, runner>>

\* =========================================================================
\* Career Mentor, Game Master and Student Agent apps
\* =========================================================================
\* ------------------------------------------- Career Mentor: agents.py routing
career_words ==
    << <<"c", "a", "r", "e", "e", "r">>,
       <<"p", "a", "t", "h">>,
       <<"f", "i", "e", "l", "d">>,
       <<"r", "e", "c", "o", "m", "m", "e", "n", "d">> >>

skill_words ==
    << <<"s", "k", "i", "l", "l">>,
       <<"l", "e", "a", "r", "n">>,
       <<"r", "o", "a", "d", "m", "a", "p">>,
       <<"t", "r", "a", "i", "n", "i", "n", "g">> >>

job_words ==
    << <<"j", "o", "b">>,
       <<"r", "o", "l", "e">>,
       <<"p", "o", "s", "i", "t", "i", "o", "n">>,
       <<"i", "n", "t", "e", "r", "v", "i", "e", "w">>,
       <<"s", "a", "l", "a", "r", "y">> >>

\* Variant of route_query with the skill branch tested first.
route_query_skill_first(query) ==
    LET query_lower == lower(query)
    IN  IF any_in(skill_words, query_lower) THEN "SkillAgent"
        ELSE IF any_in(career_words, query_lower) THEN "CareerAgent"
        ELSE IF any_in(job_words, query_lower) THEN "JobAgent"
        ELSE "CareerAgent"

\* AgentOrchestrator.process_user_query: the if/elif chain on query.lower().
route_query(query) ==
    LET query_lower == lower(query)
    IN  IF any_in(career_words, query_lower) THEN "CareerAgent"
        ELSE IF any_in(skill_words, query_lower) THEN "SkillAgent"
        ELSE IF any_in(job_words, query_lower) THEN "JobAgent"
        ELSE "CareerAgent"

\* The user queries: up to MaxParts pieces, each a keyword or a filler, in
\* lower or upper case.
Range(f) == { f[i] : i \in DOMAIN f }

Fillers == { <<" ">>, <<"x">>, <<"s">>, <<"p", "a">>, <<"t", "h">> }

QueryPieces ==
    LET words == Range(career_words) \cup Range(skill_words) \cup Range(job_words)
                 \cup Fillers
    IN  words \cup { upper(w) : w \in words }

RECURSIVE QueriesOf(_)
QueriesOf(n) ==
    IF n = 0 THEN { << >> }
    ELSE LET shorter == QueriesOf(n - 1)
         IN  shorter \cup { q \o piece : q \in shorter, piece \in QueryPieces }

Queries == QueriesOf(MaxParts)

\* ------------------------------------------------ the hosted model's answers
\* model.generate_content(prompt) returns a response or raises; message is
\* the response text or str(e).
ModelOutcomes ==
    { [raises |-> FALSE, message |-> "generated text"],
      [raises |-> TRUE,  message |-> "429 quota exceeded"],
      [raises |-> TRUE,  message |-> "connection reset"] }

\* What a call gave its caller: the returned string as <<fixed text,
\* embedded text>>, the exception that propagated instead ("none" if the call
\* returned), and how many times generate_content was invoked.
Returned(prefix, text, attempts) ==
    [raised |-> "none", response |-> <<prefix, text>>, attempts |-> attempts]

Propagated(exc, attempts) ==
    [raised |-> exc, response |-> <<"none", "none">>, attempts |-> attempts]

NoCall == Returned("none", "none", 0)

NoOutcome == [raises |-> FALSE, message |-> "none"]

\* --------------------------------------- Career Mentor: gemini_client.py
KeyMissing == "GEMINI_API_KEY not found in environment variables"

\* Variant of GeminiClient.generate_response that tries again after a failure.
GeminiClient_generate_response_retry(outcome) ==
    IF outcome.raises
    THEN Returned("Error generating response: ", outcome.message, 2)
    ELSE Returned("", outcome.message, 1)

\* GeminiClient.generate_response: one generate_content call inside
\* try/except Exception.
GeminiClient_generate_response(outcome) ==
    IF outcome.raises
    THEN Returned("Error generating response: ", outcome.message, 1)
    ELSE Returned("", outcome.message, 1)

\* GeminiClient.generate_structured_response, the "response" entry of the
\* dict it returns.
generate_structured_response(outcome) ==
    IF outcome.raises
    THEN Returned("", "", 1)
    ELSE Returned("", outcome.message, 1)

\* GeminiClient.__init__, reached from BaseAgent.__init__: raises ValueError
\* when config.GEMINI_API_KEY is not set.
GeminiClient_init(api_key) ==
    IF ~api_key THEN Propagated(KeyMissing, 0) ELSE Returned("", "", 0)

AgentClasses == {"CareerAgent", "SkillAgent", "JobAgent"}

\* The classes in the order AgentOrchestrator.__init__ and test_app build them.
AgentOrder == <<"CareerAgent", "SkillAgent", "JobAgent">>

\* query is what the user is going to type.
CareerIdle(api_key, query) ==
    [api_key |-> api_key,
     agents |-> [c \in AgentClasses |-> FALSE],
     op |-> <<"none", "none">>,
     query |-> query,
     primary_agent |-> "none",
     handled_by |-> << >>,
     outcome |-> NoOutcome,
     call |-> NoCall]

\* CareerAgent() / SkillAgent() / JobAgent(): BaseAgent.__init__ builds the
\* GeminiClient first; the agent exists only if that did not raise.
ConstructAgent(cls) ==
    /\ app = "career"
    /\ ~career.agents[cls]
    /\ \E k \in 1..Len(AgentOrder) :
           /\ AgentOrder[k] = cls
           /\ \A j \in 1..(k - 1) : career.agents[AgentOrder[j]]
    /\ LET client == GeminiClient_init(career.api_key)
       IN  career' = [career EXCEPT
               !.agents[cls] = (client.raised = "none"),
               !.op = <<"construct", cls>>,
               !.outcome = NoOutcome,
               !.call = client]
    /\ UNCHANGED <<app, game, player, quests, last_op, student>>
    /\ UNCHANGED travelVars
    /\ UNCHANGED extVars

\* CareerAgent.recommend_careers on a constructed agent.
recommend_careers(outcome) ==
    /\ app = "career"
    /\ career.agents["CareerAgent"]
    /\ career' = [career EXCEPT
           !.op = <<"recommend_careers", "CareerAgent">>,
           !.outcome = outcome,
           !.call = generate_structured_response(outcome)]
    /\ UNCHANGED <<app, game, player, quests, last_op, student>>
    /\ UNCHANGED travelVars
    /\ UNCHANGED extVars

\* AgentOrchestrator.process_user_query: the query is routed to one handler,
\* which calls its agent's process_message, i.e. client.generate_response.
process_user_query(outcome) ==
    /\ app = "career"
    /\ \A c \in AgentClasses : career.agents[c]
    /\ LET agent == route_query(career.query)
       IN  career' = [career EXCEPT
               !.op = <<"process_user_query", agent>>,
               !.primary_agent = agent,
               !.handled_by = <<agent>>,
               !.outcome = outcome,
               !.call = GeminiClient_generate_response(outcome)]
    /\ UNCHANGED <<app, game, player, quests, last_op, student>>
    /\ UNCHANGED travelVars
    /\ UNCHANGED extVars

\* ------------------------------------------------- Game Master: agents.py
\* BaseAgent.generate_response: one generate_content call inside try/except;
\* the history is extended only after the call returned.
BaseAgent_generate_response(outcome) ==
    IF outcome.raises
    THEN Returned("Error generating response: ", outcome.message, 1)
    ELSE Returned("", outcome.message, 1)

GameIdle == [conversation_history |-> << >>, outcome |-> NoOutcome, call |-> NoCall]

generate_response(outcome) ==
    /\ app = "game"
    /\ Len(game.conversation_history) + 2 <= MaxHistory
    /\ game' = [conversation_history |->
                    IF outcome.raises THEN game.conversation_history
                    ELSE game.conversation_history \o <<"user", "assistant">>,
                outcome |-> outcome,
                call |-> BaseAgent_generate_response(outcome)]
    /\ last_op' = [name |-> "generate_response", title |-> "none", message |-> "none"]
    /\ UNCHANGED <<app, career, player, quests, student>>
    /\ UNCHANGED travelVars
    /\ UNCHANGED extVars

\* --------------------------------------------- Game Master: game_state.py
\* Player(), the fields quests touch.
NewPlayer ==
    [level |-> 1, health |-> 100, max_health |-> 100, experience |-> 0, gold |-> 50]

\* The titles game_runner.handle_quest_interaction and demo.demo_quest use.
QuestTitles == {"The Lost Artifact", "Demo Quest: Find the Lost Artifact"}

\* quest_data as the callers build it: a fresh dict with a title and rewards
\* (game_runner.handle_quest_interaction gives 100 experience and 50 gold).
QuestData ==
    { [title |-> ti, experience |-> rw[1], gold |-> rw[2]] :
        ti \in QuestTitles, rw \in { <<100, 50>>, <<0, 0>> } }

NoOp == [name |-> "none", title |-> "none", message |-> "none"]

\* GameState.add_experience: at most one level is gained per call.
add_experience(p, amount) ==
    LET experience   == p.experience + amount
        required_exp == p.level * 100
    IN  IF experience >= required_exp
        THEN [p EXCEPT !.level = @ + 1,
                       !.experience = experience - required_exp,
                       !.max_health = @ + 20,
                       !.health = p.max_health + 20]
        ELSE [p EXCEPT !.experience = experience]

\* GameState.add_gold
add_gold(p, amount) == [p EXCEPT !.gold = @ + amount]

\* GameState.add_quest: the quest is stamped not completed and appended.
add_quest(quest_data) ==
    /\ app = "game"
    /\ Len(quests) < MaxQuests
    /\ quests' = Append(quests,
           [title |-> quest_data.title, completed |-> FALSE,
            experience |-> quest_data.experience, gold |-> quest_data.gold])
    /\ last_op' = [name |-> "add_quest", title |-> quest_data.title,
                   message |-> "New quest accepted"]
    /\ UNCHANGED <<app, career, game, player, student>>
    /\ UNCHANGED travelVars
    /\ UNCHANGED extVars

\* Variant of QuestMatches without the completed test.
QuestMatchesTitleOnly(quest, quest_title) == quest.title = quest_title

\* The loop test of complete_quest: the quest has the title and is not
\* completed yet.
QuestMatches(quest, quest_title) ==
    quest.title = quest_title /\ ~quest.completed

\* The quest the loop of complete_quest stops at: the first match in list
\* order, 0 when the loop runs to its end.
FirstMatch(qs, quest_title) ==
    IF \E i \in 1..Len(qs) : QuestMatches(qs[i], quest_title)
    THEN CHOOSE i \in 1..Len(qs) :
            /\ QuestMatches(qs[i], quest_title)
            /\ \A j \in 1..(i - 1) : ~QuestMatches(qs[j], quest_title)
    ELSE 0

\* GameState.complete_quest
complete_quest(quest_title) ==
    /\ app = "game"
    /\ LET i == FirstMatch(quests, quest_title)
       IN  IF i = 0
           THEN /\ quests' = quests
                /\ player' = player
                /\ last_op' = [name |-> "complete_quest", title |-> quest_title,
                               message |-> "not found or already completed"]
           ELSE LET quest == quests[i]
                    p1 == IF quest.experience > 0
                          THEN add_experience(player, quest.experience) ELSE player
                    p2 == IF quest.gold > 0 THEN add_gold(p1, quest.gold) ELSE p1
                IN  /\ quests' = [quests EXCEPT ![i].completed = TRUE]
                    /\ player' = p2
                    /\ last_op' = [name |-> "complete_quest", title |-> quest_title,
                                   message |-> "Quest completed"]
    /\ UNCHANGED <<app, career, game, student>>
    /\ UNCHANGED travelVars
    /\ UNCHANGED extVars

\* --------------------------------------------------------- Student Agent
StudentIdle == [entry |-> "none", choice |-> 0, outcome |-> NoOutcome, call |-> NoCall]

\* answer_academic_question / provide_study_tips / summarize_text,
\* get_openai_response and get_gemini_response: the API call and the use of
\* its result, with no try/except around them.
student_api_call(outcome) ==
    IF outcome.raises
    THEN Propagated(outcome.message, 1)
    ELSE Returned("", outcome.message, 1)

\* student_agent.main(): options 1-3 print what the helper returned; any other
\* choice prints "Invalid choice." without calling the API.
student_agent_main(choice, outcome) ==
    /\ app = "student"
    /\ student' = [entry |-> "student_agent.main", choice |-> choice,
                   outcome |-> IF choice \in 1..3 THEN outcome ELSE NoOutcome,
                   call |-> IF choice \in 1..3 THEN student_api_call(outcome)
                            ELSE Returned("Invalid choice.", "", 0)]
    /\ UNCHANGED <<app, career, game, player, quests, last_op>>
    /\ UNCHANGED travelVars
    /\ UNCHANGED extVars

\* The Streamlit pages: the pressed button's branch calls the helper and
\* shows what it returned.
StreamlitPage(entry, option, outcome) ==
    /\ app = "student"
    /\ student' = [entry |-> entry, choice |-> option,
                   outcome |-> outcome,
                   call |-> student_api_call(outcome)]
    /\ UNCHANGED <<app, career, game, player, quests, last_op>>
    /\ UNCHANGED travelVars
    /\ UNCHANGED extVars

get_openai_response(option, outcome) ==
    StreamlitPage("student_agent_app.py", option, outcome)

get_gemini_response(option, outcome) ==
    StreamlitPage("Student Agent App/student_agent_app.py", option, outcome)

\* =========================================================================
\* Career Mentor: tools.py (CareerTools, static methods without state)
\* =========================================================================
\* ------------------------------------------------------------- bounds
MaxInterests == 2      \* entries of the interests list
MaxSkills    == 2      \* entries of the current_skills list
MaxSeed      == 3      \* hash seeds: iteration orders a Python set can have

RoadmapPhases == {"beginner", "intermediate", "advanced"}

\* The "skills" lists of the beginner phases (the only ones the code reads).
SoftwareDevelopmentSkills ==
    << <<"P", "r", "o", "g", "r", "a", "m", "m", "i", "n", "g", " ", "F", "u", "n", "d", "a", "m", "e", "n", "t", "a", "l", "s", " ", "(", "P", "y", "t", "h", "o", "n", ",", " ", "J", "a", "v", "a", "S", "c", "r", "i", "p", "t", ")">>,
       <<"V", "e", "r", "s", "i", "o", "n", " ", "C", "o", "n", "t", "r", "o", "l", " ", "(", "G", "i", "t", ")">>,
       <<"B", "a", "s", "i", "c", " ", "D", "a", "t", "a", " ", "S", "t", "r", "u", "c", "t", "u", "r", "e", "s", " ", "&", " ", "A", "l", "g", "o", "r", "i", "t", "h", "m", "s">>,
       <<"W", "e", "b", " ", "D", "e", "v", "e", "l", "o", "p", "m", "e", "n", "t", " ", "B", "a", "s", "i", "c", "s", " ", "(", "H", "T", "M", "L", ",", " ", "C", "S", "S", ")">>,
       <<"C", "o", "m", "m", "a", "n", "d", " ", "L", "i", "n", "e", " ", "I", "n", "t", "e", "r", "f", "a", "c", "e">> >>

DataScienceSkills ==
    << <<"P", "y", "t", "h", "o", "n", " ", "P", "r", "o", "g", "r", "a", "m", "m", "i", "n", "g">>,
       <<"S", "t", "a", "t", "i", "s", "t", "i", "c", "s", " ", "F", "u", "n", "d", "a", "m", "e", "n", "t", "a", "l", "s">>,
       <<"D", "a", "t", "a", " ", "M", "a", "n", "i", "p", "u", "l", "a", "t", "i", "o", "n", " ", "(", "P", "a", "n", "d", "a", "s", ",", " ", "N", "u", "m", "P", "y", ")">>,
       <<"D", "a", "t", "a", " ", "V", "i", "s", "u", "a", "l", "i", "z", "a", "t", "i", "o", "n", " ", "(", "M", "a", "t", "p", "l", "o", "t", "l", "i", "b", ",", " ", "S", "e", "a", "b", "o", "r", "n", ")">>,
       <<"S", "Q", "L", " ", "B", "a", "s", "i", "c", "s">> >>

GenericSkills ==
    << <<"I", "n", "d", "u", "s", "t", "r", "y", " ", "F", "u", "n", "d", "a", "m", "e", "n", "t", "a", "l", "s">>,
       <<"B", "a", "s", "i", "c", " ", "T", "o", "o", "l", "s", " ", "&", " ", "S", "o", "f", "t", "w", "a", "r", "e">>,
       <<"C", "o", "r", "e", " ", "C", "o", "n", "c", "e", "p", "t", "s">>,
       <<"E", "n", "t", "r", "y", "-", "l", "e", "v", "e", "l", " ", "C", "e", "r", "t", "i", "f", "i", "c", "a", "t", "i", "o", "n", "s">>,
       <<"N", "e", "t", "w", "o", "r", "k", "i", "n", "g", " ", "B", "a", "s", "i", "c", "s">> >>

\* A roadmap: phase key -> the phase's entry ("phase" label and "skills";
\* "projects" and "resources" are not read by any caller).
Roadmap(beginner_skills, l1, l2, l3) ==
    [p \in RoadmapPhases |->
        CASE p = "beginner"     -> [phase |-> l1, skills |-> beginner_skills]
          [] p = "intermediate" -> [phase |-> l2, skills |-> << >>]
          [] p = "advanced"     -> [phase |-> l3, skills |-> << >>]]

\* roadmap_templates, the dict literal of get_career_roadmap.
roadmap_templates ==
    [f \in {"Software Development", "Data Science"} |->
        IF f = "Software Development"
        THEN Roadmap(SoftwareDevelopmentSkills, "Foundation (0-6 months)",
                     "Specialization (6-18 months)", "Expertise (18+ months)")
        ELSE Roadmap(DataScienceSkills, "Foundation (0-6 months)",
                     "Machine Learning (6-18 months)",
                     "Advanced ML & Production (18+ months)")]

generic_roadmap ==
    Roadmap(GenericSkills, "Foundation (0-6 months)",
            "Specialization (6-18 months)", "Expertise (18+ months)")

NoRoadmap == [p \in {"none"} |-> [phase |-> "none", skills |-> << >>]]

\* Variant of roadmap_for without the generic fallback: a field with no
\* template gets no roadmap.
roadmap_for_templates_only(career_field) ==
    IF career_field \in DOMAIN roadmap_templates
    THEN roadmap_templates[career_field]
    ELSE NoRoadmap

\* get_career_roadmap: "if career_field in roadmap_templates ... else" the
\* generic roadmap.
roadmap_for(career_field) ==
    IF career_field \in DOMAIN roadmap_templates
    THEN roadmap_templates[career_field]
    ELSE generic_roadmap

\* CareerTools.get_career_roadmap: the dict it returns (next_steps is a
\* constant list).
get_career_roadmap(career_field, experience_level) ==
    [career_field |-> career_field,
     experience_level |-> experience_level,
     roadmap |-> roadmap_for(career_field)]

\* ---------------------------------------------------------- get_job_insights
Insights(entry_roles, mid_roles, senior_roles, entry, mid, senior, companies) ==
    [entry_level_roles |-> entry_roles,
     mid_level_roles |-> mid_roles,
     senior_level_roles |-> senior_roles,
     salary_ranges |-> [entry |-> entry, mid |-> mid, senior |-> senior],
     companies |-> companies]

\* job_insights, the dict literal of get_job_insights.
job_insights ==
    [f \in {"Software Development", "Data Science"} |->
        IF f = "Software Development"
        THEN Insights(<<"Junior Developer", "Frontend Developer", "Backend Developer",
                        "Full Stack Developer", "QA Engineer">>,
                      <<"Senior Developer", "Team Lead", "Software Architect",
                        "DevOps Engineer", "Technical Lead">>,
                      <<"Principal Engineer", "Engineering Manager", "CTO",
                        "Technical Director", "Software Architect">>,
                      "$50,000 - $80,000", "$80,000 - $130,000", "$130,000 - $200,000+",
                      <<"Google", "Microsoft", "Amazon", "Apple", "Meta",
                        "Netflix", "Uber", "Airbnb", "Stripe", "Shopify">>)
        ELSE Insights(<<"Data Analyst", "Junior Data Scientist",
                        "Business Intelligence Analyst", "Data Engineer",
                        "Research Assistant">>,
                      <<"Data Scientist", "Senior Data Analyst",
                        "Machine Learning Engineer", "Data Engineer",
                        "Analytics Manager">>,
                      <<"Senior Data Scientist", "Lead Data Scientist",
                        "Data Science Manager", "Chief Data Officer",
                        "VP of Analytics">>,
                      "$60,000 - $90,000", "$90,000 - $140,000", "$140,000 - $200,000+",
                      <<"Netflix", "Spotify", "Uber", "Airbnb", "Google",
                        "Amazon", "Microsoft", "Meta", "Apple", "LinkedIn">>)]

generic_insights ==
    Insights(<<"Entry-level positions in the field",
               "Junior roles with training programs", "Assistant positions">>,
             <<"Specialist positions", "Team lead roles", "Senior positions">>,
             <<"Manager positions", "Director roles", "Executive positions">>,
             "Varies by industry and location", "Varies by industry and location",
             "Varies by industry and location",
             <<"Industry leaders", "Startups", "Consulting firms",
               "Government agencies">>)

NoInsights == [none |-> "none"]

\* Variant of get_job_insights without the generic fallback.
get_job_insights_known_only(career_field) ==
    IF career_field \in DOMAIN job_insights
    THEN job_insights[career_field]
    ELSE NoInsights

\* CareerTools.get_job_insights
get_job_insights(career_field) ==
    IF career_field \in DOMAIN job_insights
    THEN job_insights[career_field]
    ELSE generic_insights

\* ------------------------------------------------------ get_skill_assessment
\* skill_mapping, in the order of the dict literal: <<key, careers>>.
skill_mapping ==
    << <<<<"p", "r", "o", "g", "r", "a", "m", "m", "i", "n", "g">>, <<"Software Development", "Data Science", "AI/ML Engineering">>>>,
       <<<<"d", "a", "t", "a">>, <<"Data Science", "Business Intelligence", "Analytics">>>>,
       <<<<"d", "e", "s", "i", "g", "n">>, <<"UX/UI Design", "Graphic Design", "Product Design">>>>,
       <<<<"b", "u", "s", "i", "n", "e", "s", "s">>, <<"Product Management", "Business Administration", "Consulting">>>>,
       <<<<"m", "a", "r", "k", "e", "t", "i", "n", "g">>, <<"Digital Marketing", "Content Marketing", "Social Media">>>>,
       <<<<"f", "i", "n", "a", "n", "c", "e">>, <<"Finance", "Investment Banking", "Financial Analysis">>>>,
       <<<<"h", "e", "a", "l", "t", "h", "c", "a", "r", "e">>, <<"Healthcare", "Medical Research", "Public Health">>>>,
       <<<<"e", "d", "u", "c", "a", "t", "i", "o", "n">>, <<"Education", "Training", "Curriculum Development">>>> >>

\* Every career of skill_mapping and every beginner skill, each once: the
\* strings a set of the function can hold.
RECURSIVE Flatten(_)
Flatten(seqs) == IF seqs = << >> THEN << >> ELSE Head(seqs) \o Flatten(Tail(seqs))

RECURSIVE FirstOccurrences(_)
FirstOccurrences(xs) ==
    IF xs = << >> THEN << >>
    ELSE LET front == FirstOccurrences(SubSeq(xs, 1, Len(xs) - 1))
             x == xs[Len(xs)]
         IN  IF x \in Range(front) THEN front ELSE Append(front, x)

MappedCareers == FirstOccurrences(Flatten([i \in DOMAIN skill_mapping |-> skill_mapping[i][2]]))

RoadmapSkills == SoftwareDevelopmentSkills \o DataScienceSkills \o GenericSkills

\* Iteration order of a Python set holding the strings S.  The order depends
\* on the strings' hashes, which change with the interpreter's hash seed: the
\* strings are ranked by a seed-dependent key over their place in universe.
RECURSIVE set_order(_, _, _)
set_order(S, universe, seed) ==
    IF S = {} THEN << >>
    ELSE LET n == Len(universe) + 1
             idx(x) == CHOOSE i \in 1..Len(universe) : universe[i] = x
             key(x) == ((idx(x) * seed) % n) * n + idx(x)
             first == CHOOSE x \in S : \A y \in S : key(x) <= key(y)
         IN  <<first>> \o set_order(S \ {first}, universe, seed)

\* list(set(xs))
list_of_set(xs, universe, seed) == set_order(Range(xs), universe, seed)

\* xs[:n]
Take(xs, n) == SubSeq(xs, 1, Min(n, Len(xs)))

\* The careers collected for the interests, lines 363-368: for each interest,
\* for each mapping key that occurs in interest.lower(), extend by its careers.
careers_for(interests) ==
    Flatten([i \in DOMAIN interests |->
        Flatten([k \in DOMAIN skill_mapping |->
            IF in_str(skill_mapping[k][1], lower(interests[i]))
            THEN skill_mapping[k][2] ELSE << >>])])

\* Variant of is_gap that compares without lowering either side.
is_gap_case_sensitive(skill, current_skills) ==
    skill \notin Range(current_skills)

\* Line 380: skill.lower() not in [s.lower() for s in current_skills]
is_gap(skill, current_skills) ==
    lower(skill) \notin { lower(current_skills[i]) : i \in DOMAIN current_skills }

\* Lines 374-381: the gaps of the first three recommended careers, appended
\* in order (duplicates included).
gaps_for(careers, current_skills) ==
    Flatten([c \in DOMAIN careers |->
        LET required_skills ==
                get_career_roadmap(careers[c], "beginner").roadmap["beginner"].skills
            missing(skill) == is_gap(skill, current_skills)
        IN  SelectSeq(required_skills, missing)])

\* CareerTools.get_skill_assessment; seed fixes the order of both set()s.
get_skill_assessment(interests, current_skills, seed) ==
    LET recommended_careers ==
            list_of_set(careers_for(interests), MappedCareers, seed)
        skill_gaps == gaps_for(Take(recommended_careers, 3), current_skills)
    IN  [recommended_careers |-> Take(recommended_careers, 5),
         skill_gaps |-> Take(list_of_set(skill_gaps, RoadmapSkills, seed), 10),
         current_skill_level |-> Len(current_skills)]

\* ------------------------------------------------ the callers' arguments
\* config.CAREER_FIELDS, and the careers get_skill_assessment passes on.
CAREER_FIELDS ==
    {"Software Development", "Data Science", "Cybersecurity", "AI/ML Engineering",
     "Product Management", "UX/UI Design", "Digital Marketing", "Finance",
     "Healthcare", "Education", "Environmental Science", "Creative Arts",
     "Business Administration", "Law", "Engineering", "Sales"}

CareerFieldArgs == CAREER_FIELDS \cup Range(MappedCareers) \cup {""}

ExperienceLevels == {"beginner", "intermediate", "advanced", "expert"}

InterestArgs ==
    { <<"p", "r", "o", "g", "r", "a", "m", "m", "i", "n", "g">>,
      <<"D", "a", "t", "a", " ", "S", "c", "i", "e", "n", "c", "e">>,
      <<"D", "E", "S", "I", "G", "N">>,
      <<"c", "o", "o", "k", "i", "n", "g">> }

\* A skill the user names: as the roadmaps write it, in another letter case,
\* or one no roadmap asks for.
SkillArgs ==
    { SoftwareDevelopmentSkills[2], upper(DataScienceSkills[5]),
      lower(GenericSkills[3]), <<"P", "y", "t", "h", "o", "n">> }

RECURSIVE ListsOf(_, _)
ListsOf(S, n) ==
    IF n = 0 THEN { << >> }
    ELSE LET shorter == ListsOf(S, n - 1)
         IN  shorter \cup { Append(l, x) : l \in shorter, x \in S }

HashSeeds == 1..MaxSeed

NoAssessment ==
    [recommended_careers |-> << >>, skill_gaps |-> << >>, current_skill_level |-> 0]

NoRoadmapResult ==
    [career_field |-> "none", experience_level |-> "none", roadmap |-> NoRoadmap]

\* No tool call is under way.
ToolIdle ==
    [op |-> "none", returned |-> FALSE,
     career_field |-> "none", experience_level |-> "none",
     interests |-> << >>, current_skills |-> << >>, seed |-> 0,
     request |-> NoRequest, gemini |-> "none",
     roadmap_result |-> NoRoadmapResult, insights |-> NoInsights,
     assessment |-> NoAssessment,
     response |-> NoResponse, recommendations |-> << >>]

\* The calls a behaviour can make: the function and its arguments.
ToolCalls ==
    { [ToolIdle EXCEPT !.op = "get_career_roadmap", !.career_field = f,
                       !.experience_level = l] :
        f \in CareerFieldArgs, l \in ExperienceLevels }
    \cup
    { [ToolIdle EXCEPT !.op = "get_job_insights", !.career_field = f] :
        f \in CareerFieldArgs }
    \cup
    { [ToolIdle EXCEPT !.op = "get_skill_assessment", !.interests = i,
                       !.current_skills = c, !.seed = h] :
        i \in ListsOf(InterestArgs, MaxInterests),
        c \in ListsOf(SkillArgs, MaxSkills), h \in HashSeeds }
    \cup
    { [ToolIdle EXCEPT !.op = "DestinationAgent.process_request",
                       !.request = TravelRequest(mo, b, NoneDate, NoneDate),
                       !.gemini = g] :
        mo \in TravelMood, b \in BudgetLevel, g \in {"mock", "text", "error"} }

CareerTools_get_career_roadmap ==
    /\ app = "tools"
    /\ tool.op = "get_career_roadmap" /\ ~tool.returned
    /\ tool' = [tool EXCEPT
           !.returned = TRUE,
           !.roadmap_result = get_career_roadmap(tool.career_field,
                                                 tool.experience_level)]
    /\ UNCHANGED <<runner, session_call>>
    /\ UNCHANGED <<travelVars, appVars>>

CareerTools_get_job_insights ==
    /\ app = "tools"
    /\ tool.op = "get_job_insights" /\ ~tool.returned
    /\ tool' = [tool EXCEPT
           !.returned = TRUE,
           !.insights = get_job_insights(tool.career_field)]
    /\ UNCHANGED <<runner, session_call>>
    /\ UNCHANGED <<travelVars, appVars>>

CareerTools_get_skill_assessment ==
    /\ app = "tools"
    /\ tool.op = "get_skill_assessment" /\ ~tool.returned
    /\ tool' = [tool EXCEPT
           !.returned = TRUE,
           !.assessment = get_skill_assessment(tool.interests, tool.current_skills,
                                               tool.seed)]
    /\ UNCHANGED <<runner, session_call>>
    /\ UNCHANGED <<travelVars, appVars>>

\* DestinationAgent.process_request called on its own (demo.py, main.py
\* _demo_agents): the request and the Gemini text go into the agent's history,
\* the response carries the recommendations.
DestinationAgent_process_request ==
    /\ app = "tools"
    /\ tool.op = "DestinationAgent.process_request" /\ ~tool.returned
    /\ conversation_history' =
           add_to_history(
               add_to_history(conversation_history, "DestinationAgent", "user", 0),
               "DestinationAgent", "assistant", 0)
    /\ LET response == DestinationResponse(tool.request, tool.gemini)
       IN  tool' = [tool EXCEPT
               !.returned = TRUE,
               !.response = response,
               !.recommendations = IF response.success
                                   THEN recommendations(tool.request)
                                   ELSE << >>]
    /\ UNCHANGED <<now, hasModel, active_sessions, current_session, pc, req,
                   session_id, responses, gemini, worker, result, calls,
                   running, accesses>>
    /\ UNCHANGED appVars
    /\ UNCHANGED <<runner, session_call>>

\* =========================================================================
\* Game Master: game_runner.py (GameRunner)
\* =========================================================================
MaxCombats == 1        \* combat encounters started in one game
MaxAccepted == 1       \* quests accepted from the elder in one game

Scenes == {"village_square", "elder_house", "forest_path", "dark_cave",
           "ancient_ruins"}

\* process_command: the numbered choices of each scene.
available_choices(scene) ==
    CASE scene = "village_square" ->
          << <<"V", "i", "s", "i", "t", " ", "t", "h", "e", " ", "v", "i", "l", "l", "a", "g", "e", " ", "e", "l", "d", "e", "r">>,
             <<"E", "x", "p", "l", "o", "r", "e", " ", "t", "h", "e", " ", "f", "o", "r", "e", "s", "t", " ", "p", "a", "t", "h">>,
             <<"C", "h", "e", "c", "k", " ", "t", "h", "e", " ", "l", "o", "c", "a", "l", " ", "s", "h", "o", "p">>,
             <<"T", "a", "l", "k", " ", "t", "o", " ", "v", "i", "l", "l", "a", "g", "e", "r", "s">> >>
      [] scene = "elder_house" ->
          << <<"A", "s", "k", " ", "f", "o", "r", " ", "a", " ", "q", "u", "e", "s", "t">>,
             <<"L", "e", "a", "r", "n", " ", "a", "b", "o", "u", "t", " ", "t", "h", "e", " ", "v", "i", "l", "l", "a", "g", "e", " ", "h", "i", "s", "t", "o", "r", "y">>,
             <<"R", "e", "t", "u", "r", "n", " ", "t", "o", " ", "v", "i", "l", "l", "a", "g", "e", " ", "s", "q", "u", "a", "r", "e">> >>
      [] scene = "forest_path" ->
          << <<"C", "o", "n", "t", "i", "n", "u", "e", " ", "d", "e", "e", "p", "e", "r", " ", "i", "n", "t", "o", " ", "t", "h", "e", " ", "f", "o", "r", "e", "s", "t">>,
             <<"S", "e", "a", "r", "c", "h", " ", "f", "o", "r", " ", "r", "e", "s", "o", "u", "r", "c", "e", "s">>,
             <<"R", "e", "t", "u", "r", "n", " ", "t", "o", " ", "v", "i", "l", "l", "a", "g", "e", " ", "s", "q", "u", "a", "r", "e">> >>
      [] scene = "dark_cave" ->
          << <<"E", "x", "p", "l", "o", "r", "e", " ", "d", "e", "e", "p", "e", "r", " ", "i", "n", "t", "o", " ", "t", "h", "e", " ", "c", "a", "v", "e">>,
             <<"S", "e", "a", "r", "c", "h", " ", "f", "o", "r", " ", "t", "r", "e", "a", "s", "u", "r", "e", "s">>,
             <<"R", "e", "t", "u", "r", "n", " ", "t", "o", " ", "t", "h", "e", " ", "f", "o", "r", "e", "s", "t", " ", "p", "a", "t", "h">> >>
      [] scene = "ancient_ruins" ->
          << <<"I", "n", "v", "e", "s", "t", "i", "g", "a", "t", "e", " ", "t", "h", "e", " ", "r", "u", "i", "n", "s">>,
             <<"S", "e", "a", "r", "c", "h", " ", "f", "o", "r", " ", "a", "r", "t", "i", "f", "a", "c", "t", "s">>,
             <<"R", "e", "t", "u", "r", "n", " ", "t", "o", " ", "t", "h", "e", " ", "f", "o", "r", "e", "s", "t", " ", "p", "a", "t", "h">> >>
      [] OTHER -> << <<"R", "e", "t", "u", "r", "n", " ", "t", "o", " ", "p", "r", "e", "v", "i", "o", "u", "s", " ", "l", "o", "c", "a", "t", "i", "o", "n">> >>

\* roll_dice(sides, 1)["total"] for the damage dice: the lowest and the
\* highest roll.
Dice(sides) == {1, sides}

\* The d20 rolls on either side of the tests "> 10", "> 15" and "> 18".
FleeRolls == {10, 11}
EventRolls == {15, 16}
CombatRolls == {18, 19}

\* GameState.damage_player
damage_player(p, amount) ==
    [p EXCEPT !.health = IF p.health - amount > 0 THEN p.health - amount ELSE 0]

\* No story panel was printed in this pass of the loop.
NoStory == [choice |-> << >>, location |-> "none"]

\* GameRunner.__init__ with a new GameState; location is
\* game_state.player.location.  game_over records that the "You have been
\* defeated! Game over." line was printed, after_game_over that a command was
\* processed after it, story the arguments of narrator_agent.progress_story
\* in the last pass of the loop.
RunnerNew ==
    [loop |-> "not_started", running |-> FALSE,
     current_scene |-> "village_square", location |-> "Starting Village",
     game_mode |-> "exploration",
     monster_health |-> 0, combats |-> 0,
     game_over |-> FALSE, after_game_over |-> FALSE,
     story |-> NoStory]

\* start_random_combat: the monster has 30 health and level 3.
start_random_combat(r) ==
    [r EXCEPT !.game_mode = "combat", !.monster_health = 30, !.combats = @ + 1]

\* GameState.end_combat
end_combat(r) == [r EXCEPT !.game_mode = "exploration", !.monster_health = 0]

\* end_combat_victory: 30 experience (monster level 3 * 10) and the loot's
\* gold, randint(1, 10) * 3.
end_combat_victory(r, p, loot) ==
    [r |-> end_combat(r), p |-> add_gold(add_experience(p, 30), loot * 3)]

\* handle_combat_round, lines 328-331: the defeat message and
\* self.running = False.
defeat_check(r, p) ==
    IF p.health <= 0
    THEN [r EXCEPT !.game_over = TRUE, !.running = FALSE]
    ELSE r

\* handle_combat_round(player_action) in combat; d10, d8, d20 and loot are
\* the dice it rolls.
handle_combat_round(r, p, player_action, d10, d8, d20, loot) ==
    IF player_action = "attack"
    THEN LET damage == d10 + p.level * 2
             hit == [r EXCEPT !.monster_health = @ - damage]
         IN  IF hit.monster_health <= 0
             THEN end_combat_victory(hit, p, loot)
             ELSE LET p1 == damage_player(p, d8)
                  IN  [r |-> defeat_check(hit, p1), p |-> p1]
    ELSE IF player_action = "defend"
    THEN LET p1 == damage_player(p, IF d8 - 3 > 1 THEN d8 - 3 ELSE 1)
         IN  [r |-> defeat_check(r, p1), p |-> p1]
    ELSE \* flee
         IF d20 > 10
         THEN [r |-> defeat_check(end_combat(r), p), p |-> p]
         ELSE LET p1 == damage_player(p, d8)
              IN  [r |-> defeat_check(r, p1), p |-> p1]

\* handle_exploration_choice: the first of its keywords, in the order of the
\* if/elif chain, that occurs in choice.lower().
first_keyword(choice) ==
    LET c == lower(choice)
    IN  IF in_str(<<"e", "l", "d", "e", "r">>, c) THEN "elder"
        ELSE IF in_str(<<"f", "o", "r", "e", "s", "t">>, c) THEN "forest"
        ELSE IF in_str(<<"c", "a", "v", "e">>, c) THEN "cave"
        ELSE IF in_str(<<"r", "u", "i", "n", "s">>, c) THEN "ruins"
        ELSE IF in_str(<<"r", "e", "t", "u", "r", "n">>, c) THEN "return"
        ELSE IF in_str(<<"s", "h", "o", "p">>, c) THEN "shop"
        ELSE IF in_str(<<"q", "u", "e", "s", "t">>, c) THEN "quest"
        ELSE "none"

\* Every choice a choice list offers, and the branch each one takes.
AllChoices ==
    UNION { Range(available_choices(scene)) : scene \in Scenes \cup {"unknown"} }

ChoiceKeyword == [choice \in AllChoices |-> first_keyword(choice)]

\* handle_exploration_choice: the scene the choice leads to.
scene_after(r, choice) ==
    LET k == ChoiceKeyword[choice]
    IN  CASE k = "elder"  -> "elder_house"
          [] k = "forest" -> "forest_path"
          [] k = "cave"   -> "dark_cave"
          [] k = "ruins"  -> "ancient_ruins"
          [] k = "return" ->
               IF r.current_scene = "elder_house" THEN "village_square"
               ELSE IF r.current_scene \in {"forest_path", "dark_cave", "ancient_ruins"}
               THEN "forest_path"
               ELSE r.current_scene
          [] OTHER -> r.current_scene

\* handle_exploration_choice: the argument of update_player_location in the
\* branch the choice takes; the "return" branch leaves the location alone
\* when the scene is neither the elder's house nor one of the forest scenes.
location_after(r, choice) ==
    LET k == ChoiceKeyword[choice]
    IN  CASE k = "elder"  -> "Elder's House"
          [] k = "forest" -> "Forest Path"
          [] k = "cave"   -> "Dark Cave"
          [] k = "ruins"  -> "Ancient Ruins"
          [] k = "return" ->
               IF r.current_scene = "elder_house" THEN "Starting Village"
               ELSE IF r.current_scene \in {"forest_path", "dark_cave", "ancient_ruins"}
               THEN "Forest Path"
               ELSE r.location
          [] OTHER -> r.location

\* The kind of branch the choice takes: a move with its story panel, the
\* shop, the quest, or the random event.
choice_kind(choice) ==
    LET k == ChoiceKeyword[choice]
    IN  CASE k \in {"elder", "forest", "cave", "ruins", "return"} -> "move"
          [] k = "shop"  -> "shop"
          [] k = "quest" -> "quest"
          [] OTHER -> "event"

\* handle_exploration_choice(choice): a move, the shop (inventory is not
\* modelled), a new quest, or the random event that may start a combat.
handle_exploration_choice(r, choice, d20a, d20b) ==
    CASE choice_kind(choice) = "move" ->
           [r EXCEPT !.current_scene = scene_after(r, choice),
                     !.location = location_after(r, choice),
                     !.story = [choice |-> choice,
                                location |-> location_after(r, choice)]]
      [] choice_kind(choice) = "event" ->
           IF d20a > 15 /\ d20b > 18 THEN start_random_combat(r) ELSE r
      [] OTHER -> r

Commands == {"quit", "help", "explore", "attack", "defend", "flee",
             "1", "2", "3", "4", "5", "dance"}

choice_num(command) ==
    CASE command = "1" -> 1 [] command = "2" -> 2 [] command = "3" -> 3
      [] command = "4" -> 4 [] command = "5" -> 5 [] OTHER -> 0

\* The quest of handle_quest_interaction.
LostArtifactQuest == [title |-> "The Lost Artifact", experience |-> 100, gold |-> 50]

\* GameRunner.run up to its loop: running is set, no save file is found, the
\* first scene is narrated.
run ==
    /\ app = "runner"
    /\ runner.loop = "not_started"
    /\ runner' = [runner EXCEPT !.loop = "looping", !.running = TRUE]
    /\ UNCHANGED <<tool, session_call>>
    /\ UNCHANGED <<travelVars, appVars>>

\* One pass of the loop of run: "while self.running", the prompt, and
\* "self.running = self.process_command(command)".  process_command returns
\* False for quit and True at its end for every other command.
process_command(command, d10, d8, d20a, d20b, loot) ==
    /\ app = "runner"
    /\ runner.loop = "looping"
    /\ IF runner.running
       THEN LET r0 == [runner EXCEPT !.after_game_over = @ \/ runner.game_over,
                                     !.story = NoStory]
                choices == available_choices(r0.current_scene)
                n == choice_num(command)
                takes_quest == /\ n >= 1 /\ n <= Len(choices)
                               /\ r0.game_mode = "exploration"
                               /\ choice_kind(choices[n]) = "quest"
                out ==
                    IF command \in {"attack", "defend", "flee"}
                         /\ r0.game_mode = "combat"
                    THEN handle_combat_round(r0, player, command, d10, d8, d20a, loot)
                    ELSE IF n >= 1 /\ n <= Len(choices) /\ r0.game_mode = "exploration"
                    THEN [r |-> handle_exploration_choice(r0, choices[n], d20a, d20b),
                          p |-> player]
                    ELSE [r |-> r0, p |-> player]
                returned == command # "quit"
            IN  /\ out.r.combats <= MaxCombats
                /\ takes_quest => Len(quests) < MaxAccepted
                /\ runner' = [out.r EXCEPT !.running = returned]
                /\ player' = out.p
                /\ quests' = IF takes_quest
                             THEN Append(quests,
                                    [title |-> LostArtifactQuest.title,
                                     completed |-> FALSE,
                                     experience |-> LostArtifactQuest.experience,
                                     gold |-> LostArtifactQuest.gold])
                             ELSE quests
       ELSE /\ runner' = [runner EXCEPT !.loop = "exited"]
            /\ UNCHANGED <<player, quests>>
    /\ UNCHANGED <<app, career, game, last_op, student>>
    /\ UNCHANGED <<tool, session_call>>
    /\ UNCHANGED travelVars

\* ------------------------------------------------------- specifications
ExtIdle ==
    /\ tool = ToolIdle
    /\ runner = RunnerNew
    /\ session_call = NoSessionCall

AppsIdle ==
    /\ career = CareerIdle(FALSE, << >>)
    /\ game = GameIdle
    /\ player = NewPlayer
    /\ quests = << >>
    /\ last_op = NoOp
    /\ student = StudentIdle

Init ==
    /\ TravelInit
    /\ app = "travel"
    /\ AppsIdle
    /\ ExtIdle

InitApps ==
    /\ TravelInit
    /\ hasModel = FALSE
    /\ app \in {"career", "game", "student"}
    /\ career \in IF app = "career"
                   THEN { CareerIdle(k, q) : k \in BOOLEAN, q \in Queries }
                   ELSE { CareerIdle(FALSE, << >>) }
    /\ game = GameIdle
    /\ player = NewPlayer
    /\ quests = << >>
    /\ last_op = NoOp
    /\ student = StudentIdle
    /\ ExtIdle

Next ==
    \/ \E t \in Tasks : StartAwaited(t) \/ TaskStep(t)
    \/ Tick

NextConc ==
    \/ \E t \in Tasks : StartInterleaved(t) \/ TaskStep(t)
    \/ Tick

NextApps ==
    \/ \E c \in AgentClasses : ConstructAgent(c)
    \/ \E o \in ModelOutcomes : recommend_careers(o)
    \/ \E o \in ModelOutcomes : process_user_query(o)
    \/ \E o \in ModelOutcomes : generate_response(o)
    \/ \E q \in QuestData : add_quest(q)
    \/ \E ti \in QuestTitles \cup {"Unknown Quest"} : complete_quest(ti)
    \/ \E c \in 1..4, o \in ModelOutcomes : student_agent_main(c, o)
    \/ \E c \in 1..3, o \in ModelOutcomes : get_openai_response(c, o)
    \/ \E c \in 1..3, o \in ModelOutcomes : get_gemini_response(c, o)

Spec == Init /\ [][Next]_vars

\* The coordinator as main.py drives it: plans are created, looked at and
\* modified, each call awaited before the next.
NextModify ==
    \/ SessionCallIdle /\ Next
    \/ ReceiveSessionResponse
    \/ \E sid \in SessionIds, mo \in Modifications, o \in {"ok", "raise"} :
           modify_plan(sid, mo, o)
    \/ \E sid \in SessionIds : get_session_status(sid)

SpecModify == Init /\ [][NextModify]_vars

SpecConc == Init /\ [][NextConc]_vars

SpecApps == InitApps /\ [][NextApps]_vars

\* CareerTools and DestinationAgent called on their own, as test_app.py and
\* the demos call them.
InitTools ==
    /\ TravelInit
    /\ hasModel = FALSE
    /\ app = "tools"
    /\ AppsIdle
    /\ tool \in ToolCalls
    /\ runner = RunnerNew
    /\ session_call = NoSessionCall

NextTools ==
    \/ CareerTools_get_career_roadmap
    \/ CareerTools_get_job_insights
    \/ CareerTools_get_skill_assessment
    \/ DestinationAgent_process_request

SpecTools == InitTools /\ [][NextTools]_vars

\* One game of GameRunner.run.
InitRunner ==
    /\ TravelInit
    /\ hasModel = FALSE
    /\ app = "runner"
    /\ AppsIdle
    /\ ExtIdle

\* Each command with the dice its branch rolls; 1 stands for a die that is
\* not rolled.
NextRunner ==
    \/ run
    \/ \E c \in Commands \ {"attack", "defend", "flee", "1", "2", "3", "4"} :
           process_command(c, 1, 1, 1, 1, 1)
    \/ \E c \in {"1", "2", "3", "4"}, d20a \in EventRolls, d20b \in CombatRolls :
           process_command(c, 1, 1, d20a, d20b, 1)
    \/ \E d10 \in Dice(10), d8 \in Dice(8), loot \in Dice(10) :
           process_command("attack", d10, d8, 1, 1, loot)
    \/ \E d8 \in Dice(8) : process_command("defend", 1, d8, 1, 1, 1)
    \/ \E d8 \in Dice(8), d20 \in FleeRolls : process_command("flee", 1, d8, d20, 1, 1)

SpecRunner == InitRunner /\ [][NextRunner]_vars

\* =========================================================================
\* Properties
\* =========================================================================
WorkflowOrder == <<"DestinationAgent", "BookingAgent", "ExploreAgent">>

IsPrefix(s, full) == Len(s) <= Len(full) /\ s = SubSeq(full, 1, Len(s))

Session(t) == active_sessions[session_id[t]]

\* C1: process_request invokes the agents in the order destination, booking,
\* explore, each at most once per request; the booking agent only after the
\* destination agent returned success, the explore agent only after the
\* booking agent returned success.
C1_FixedOrderNoRetry ==
    \A t \in Tasks :
        /\ IsPrefix(calls[t], WorkflowOrder)
        /\ pc[t] # "done" /\ Len(calls[t]) >= 2 => responses[t].destination.success
        /\ pc[t] # "done" /\ Len(calls[t]) >= 3 => responses[t].booking.success

\* A request whose explore step failed has returned after one invocation of
\* each agent.
C1_Witness ==
    \E t \in Tasks :
        /\ pc[t] = "returned"
        /\ calls[t] = WorkflowOrder
        /\ ~responses[t].explore.success

BookingFailed(t) ==
    /\ Len(calls[t]) = 2
    /\ responses[t].booking.agent_name = "BookingAgent"
    /\ ~responses[t].booking.success

ExploreFailed(t) ==
    /\ Len(calls[t]) = 3
    /\ responses[t].explore.agent_name = "ExploreAgent"
    /\ ~responses[t].explore.success

\* C2: when the booking or the explore step returns success=False,
\* process_request returns that response unchanged, the session stays
\* 'started', and the steps and results recorded by the earlier steps remain.
C2_NoCompensation ==
    \A t \in Tasks :
        pc[t] = "returned" =>
            /\ BookingFailed(t) =>
                  /\ result[t] = responses[t].booking
                  /\ Session(t).status = "started"
                  /\ Session(t).steps_completed = <<"destination">>
                  /\ Session(t).results = {"destination"}
            /\ ExploreFailed(t) =>
                  /\ result[t] = responses[t].explore
                  /\ Session(t).status = "started"
                  /\ Session(t).steps_completed = <<"destination", "booking">>
                  /\ Session(t).results = {"destination", "booking"}

\* A call has returned the explore agent's failure.
C2_Witness ==
    \E t \in Tasks : pc[t] = "returned" /\ ExploreFailed(t)

\* An exception is raised in the body of process_request itself: by
\* request.mood.value, or by recommendations[0] on an empty list.
CoordinatorException(t) ==
    \/ req[t].mood \notin TravelMood
    \/ /\ responses[t].destination.success
       /\ recommendations_count(req[t]) = 0

\* C3: process_request never raises; an exception raised in its body comes
\* back as a response with success=False, data=None and a message that
\* starts with 'Error in travel coordination: '.
C3_NeverRaises ==
    \A t \in Tasks :
        pc[t] = "returned" =>
            /\ ~result[t].raised
            /\ CoordinatorException(t) =>
                  /\ ~result[t].success
                  /\ result[t].data = "None"
                  /\ result[t].message[1] = "Error in travel coordination: "

\* A call whose request.mood is not a TravelMood has returned.
C3_Witness ==
    \E t \in Tasks :
        /\ pc[t] = "returned"
        /\ req[t].mood = NotEnum
        /\ result[t].message = <<"Error in travel coordination: ", "AttributeError">>

ErrorReply(outcome) == Returned("Error generating response: ", outcome.message, 1)

\* C4: in the Career Mentor and Game Master apps, when generate_content
\* raises, generate_response returns 'Error generating response: <message>'
\* after exactly one call attempt, and does not raise.
C4_ErrorStringOneAttempt ==
    /\ career.op[1] = "process_user_query" /\ career.outcome.raises
          => career.call = ErrorReply(career.outcome)
    /\ last_op.name = "generate_response" /\ game.outcome.raises
          => /\ game.call = ErrorReply(game.outcome)
             /\ game.call.raised = "none"

\* A Career Mentor query was answered while the model call raised.
C4_Witness ==
    /\ career.op[1] = "process_user_query"
    /\ career.outcome.raises
    /\ career.call.response[1] = "Error generating response: "

\* C5: in the Student Agent apps an exception raised by the LLM API call is
\* caught at the call site and shown to the user as an error string; it does
\* not propagate out of the entry point.
C5_StudentErrorsCaught ==
    student.outcome.raises =>
        /\ student.call.raised = "none"
        /\ student.call.response[2] = student.outcome.message

\* C6: no timeout is enforced on the Traveller app's LLM calls.  While the
\* Gemini call of a step has not returned, the session is 'started' and
\* nothing but the call's own return lets the request move on, however much
\* time passes.
C6_NoTimeout ==
    /\ [](\A t \in Tasks :
            pc[t] \in StepWaitPcs /\ worker[t].state = "queued"
                => Session(t).status = "started")
    /\ [][\A t \in Tasks :
            pc[t] \in WaitPcs /\ worker[t].state = "queued"
                => /\ pc'[t] = pc[t]
                   /\ pc[t] \in StepWaitPcs => Session(t)'.status = "started"]_vars

\* A step's Gemini call is still outstanding after the configured timeout.
C6_Witness ==
    \E t \in Tasks :
        /\ pc[t] \in StepWaitPcs
        /\ worker[t].state = "queued"
        /\ now - worker[t].started >= TIMEOUT_SECONDS
        /\ Session(t).status = "started"

SharedState == {"conversation_history", "active_sessions"}

\* C7: conversation_history and active_sessions are read and written on the
\* event-loop side only; the worker thread runs generate_content on the
\* prompt that was built before the call was handed over.
C7_LoopOwnsAgentState ==
    /\ \A a \in accesses : a[2] \in SharedState => a[1] = "loop"
    /\ \A t \in Tasks :
          worker[t].state = "done" => worker[t].input = worker[t].prompt

\* A worker has run while another call extended the same agent's history.
C7_Witness ==
    \E t \in Tasks :
        /\ worker[t].state = "done"
        /\ worker[t].input = worker[t].prompt
        /\ _build_prompt(conversation_history, worker[t].agent, t) # worker[t].prompt

CareerKeywords ==
    { <<"c", "a", "r", "e", "e", "r">>,
      <<"p", "a", "t", "h">>,
      <<"f", "i", "e", "l", "d">>,
      <<"r", "e", "c", "o", "m", "m", "e", "n", "d">> }

SkillKeywords ==
    { <<"s", "k", "i", "l", "l">>,
      <<"l", "e", "a", "r", "n">>,
      <<"r", "o", "a", "d", "m", "a", "p">>,
      <<"t", "r", "a", "i", "n", "i", "n", "g">> }

JobKeywords ==
    { <<"j", "o", "b">>,
      <<"r", "o", "l", "e">>,
      <<"p", "o", "s", "i", "t", "i", "o", "n">>,
      <<"i", "n", "t", "e", "r", "v", "i", "e", "w">>,
      <<"s", "a", "l", "a", "r", "y">> }

\* word occurs in text at some position, letter case of text ignored.
OccursIgnoringCase(word, text) ==
    \E i \in 1..Len(text) :
        /\ i + Len(word) - 1 <= Len(text)
        /\ \A k \in 1..Len(word) : lower_char(text[i + k - 1]) = word[k]

Mentions(keywords, text) == \E w \in keywords : OccursIgnoringCase(w, text)

\* C8: process_user_query routes a query to exactly one agent, by
\* case-insensitive substring test, first match wins: career keywords, then
\* skill keywords, then job keywords; no keyword goes to CareerAgent.
C8_RoutingOrder ==
    career.op[1] = "process_user_query" =>
        LET q == career.query
            expected ==
                IF Mentions(CareerKeywords, q) THEN "CareerAgent"
                ELSE IF Mentions(SkillKeywords, q) THEN "SkillAgent"
                ELSE IF Mentions(JobKeywords, q) THEN "JobAgent"
                ELSE "CareerAgent"
        IN  /\ career.handled_by = <<expected>>
            /\ career.primary_agent = expected

\* A query with a career keyword and a skill keyword, in upper case, was
\* answered by CareerAgent.
C8_Witness ==
    /\ career.op[1] = "process_user_query"
    /\ career.query = upper(<<"s", "k", "i", "l", "l">>) \o upper(<<"c", "a", "r", "e", "e", "r">>)
    /\ career.primary_agent = "CareerAgent"

\* C9: without a GEMINI_API_KEY, constructing CareerAgent, SkillAgent and
\* JobAgent succeeds; the missing key surfaces only when recommend_careers is
\* called, as an error that mentions GEMINI_API_KEY.
C9_ConstructsWithoutKey ==
    ~career.api_key =>
        /\ career.op[1] = "construct"
              => career.call.raised = "none" /\ career.agents[career.op[2]]
        /\ career.op[1] = "recommend_careers" => career.call.raised = KeyMissing

RECURSIVE LevelsCost(_)
LevelsCost(level) == IF level <= 1 THEN 0 ELSE (level - 1) * 100 + LevelsCost(level - 1)

\* All experience a player has been granted: what the levels cost plus what
\* is left.
TotalExperience(p) == LevelsCost(p.level) + p.experience

OpenQuests(qs, title) ==
    { i \in 1..Len(qs) : qs[i].title = title /\ ~qs[i].completed }

\* C10: complete_quest(title) completes the first uncompleted quest with that
\* title and no other, and grants its experience and gold once; when no
\* uncompleted quest has the title it changes neither the quests nor the
\* player and answers 'not found or already completed'.
C10_CompleteQuestOnce ==
    [][last_op'.name = "complete_quest" =>
          LET open == OpenQuests(quests, last_op'.title)
          IN  IF open = {}
              THEN /\ quests' = quests
                   /\ player' = player
                   /\ last_op'.message = "not found or already completed"
              ELSE LET i == CHOOSE k \in open : \A j \in open : k <= j
                   IN  /\ quests' = [quests EXCEPT ![i].completed = TRUE]
                       /\ TotalExperience(player') =
                              TotalExperience(player) + quests[i].experience
                       /\ player'.gold = player.gold + quests[i].gold
                       /\ last_op'.message = "Quest completed"]_vars

\* A second complete_quest for a quest that was completed before found
\* nothing left to complete.
C10_Witness ==
    /\ last_op.name = "complete_quest"
    /\ last_op.message = "not found or already completed"
    /\ \E i \in 1..Len(quests) :
          /\ quests[i].title = last_op.title
          /\ quests[i].completed
          /\ quests[i].experience > 0

\* C11: get_career_roadmap returns the career_field and experience_level it
\* was given and a roadmap with the phases beginner, intermediate and
\* advanced, for fields with a template and for fields without one (which
\* get the generic roadmap).
C11_RoadmapShape ==
    tool.op = "get_career_roadmap" /\ tool.returned =>
        /\ tool.roadmap_result.career_field = tool.career_field
        /\ tool.roadmap_result.experience_level = tool.experience_level
        /\ {"beginner", "intermediate", "advanced"}
               \subseteq DOMAIN tool.roadmap_result.roadmap
        /\ tool.career_field \notin {"Software Development", "Data Science"}
               => tool.roadmap_result.roadmap["beginner"].skills = GenericSkills

\* A roadmap was asked for a field that has no template, at a level that is
\* not one of the phases.
C11_Witness ==
    /\ tool.op = "get_career_roadmap" /\ tool.returned
    /\ tool.career_field = "Law"
    /\ tool.experience_level = "expert"
    /\ tool.roadmap_result.roadmap["advanced"].phase = "Expertise (18+ months)"

NoDuplicates(xs) == \A i, j \in DOMAIN xs : i # j => xs[i] # xs[j]

\* a and b are the same string when letter case is ignored.
SameIgnoringCase(a, b) ==
    /\ Len(a) = Len(b)
    /\ \A k \in 1..Len(a) : lower_char(a[k]) = lower_char(b[k])

\* C12: get_skill_assessment returns at most 5 recommended careers and at
\* most 10 skill gaps, each list without duplicates, and no skill gap equals,
\* ignoring case, a skill of current_skills.
C12_AssessmentBounds ==
    tool.op = "get_skill_assessment" /\ tool.returned =>
        LET a == tool.assessment
        IN  /\ Len(a.recommended_careers) <= 5
            /\ NoDuplicates(a.recommended_careers)
            /\ Len(a.skill_gaps) <= 10
            /\ NoDuplicates(a.skill_gaps)
            /\ \A g \in DOMAIN a.skill_gaps, c \in DOMAIN tool.current_skills :
                   ~SameIgnoringCase(a.skill_gaps[g], tool.current_skills[c])

\* Both lists were cut, although the user already has a required skill that
\* was named in another letter case.
C12_Witness ==
    /\ tool.op = "get_skill_assessment" /\ tool.returned
    /\ Len(tool.assessment.recommended_careers) = 5
    /\ Len(tool.assessment.skill_gaps) = 10
    /\ Cardinality(Range(careers_for(tool.interests))) > 5
    /\ \E c \in DOMAIN tool.current_skills :
          /\ tool.current_skills[c] \notin Range(RoadmapSkills)
          /\ \E r \in Range(RoadmapSkills) :
                SameIgnoringCase(r, tool.current_skills[c])

\* C13: get_job_insights returns, for known and unknown fields alike, the
\* role lists of the three levels, the companies, and salary_ranges with the
\* keys entry, mid and senior; an unknown field gets the generic insights.
C13_InsightsShape ==
    tool.op = "get_job_insights" /\ tool.returned =>
        /\ {"entry_level_roles", "mid_level_roles", "senior_level_roles",
            "companies", "salary_ranges"} \subseteq DOMAIN tool.insights
        /\ {"entry", "mid", "senior"} \subseteq DOMAIN tool.insights.salary_ranges
        /\ tool.career_field \notin {"Software Development", "Data Science"}
               => tool.insights.salary_ranges.entry = "Varies by industry and location"

\* Insights were asked for a field the function has no entry for.
C13_Witness ==
    /\ tool.op = "get_job_insights" /\ tool.returned
    /\ tool.career_field = "Cybersecurity"
    /\ tool.insights.companies[1] = "Industry leaders"

\* C14: once a combat round has left the player at 0 health and the game-over
\* line has been printed, the main loop is stopped (running is false) and no
\* further command is processed.
C14_GameOverStopsLoop ==
    runner.game_over =>
        /\ ~runner.running
        /\ ~runner.after_game_over

\* get_coordinator_stats: the counts its callers print.
get_coordinator_stats ==
    [total_sessions |-> Cardinality(DOMAIN active_sessions),
     completed_sessions |->
         Cardinality({s \in DOMAIN active_sessions :
                         active_sessions[s].status = "completed"})]

\* The process_request calls made so far.
CallsMade == {t \in Tasks : pc[t] # "idle"}

\* C15: each process_request call has an active_sessions entry of its own:
\* after n calls get_coordinator_stats reports total_sessions = n, also when
\* two calls fall into the same clock second.
C15_OneSessionPerCall ==
    get_coordinator_stats.total_sessions = Cardinality(CallsMade)

WorkflowSteps == <<"destination", "booking", "explore">>

\* C16: with process_request, modify_plan and get_session_status called one
\* after the other, every session whose status is "completed" has
\* steps_completed = ["destination", "booking", "explore"] and a final_plan
\* among its results.
C16_CompletedSessionShape ==
    \A s \in DOMAIN active_sessions :
        active_sessions[s].status = "completed" =>
            /\ active_sessions[s].steps_completed = WorkflowSteps
            /\ "final_plan" \in active_sessions[s].results

\* A completed plan was modified (its destination step ran again) and another
\* plan has been completed since.
C16_Witness ==
    /\ \E s \in DOMAIN active_sessions :
           /\ active_sessions[s].status = "modified"
           /\ Len(active_sessions[s].steps_completed) = 4
    /\ \E s \in DOMAIN active_sessions : active_sessions[s].status = "completed"

\* A request the agents can serve: the mood is a TravelMood, start_date is a
\* date or None, and the trip is not a same-day trip.
WellFormed(request) ==
    /\ request.mood \in TravelMood
    /\ request.start_date # BadDate
    /\ _calculate_duration(request) # 0

\* C17: a failing Gemini call never fails the workflow.  call_gemini returns
\* its error string (or the mock text) and never raises; an agent that was
\* given the error string still answers success=True with the string
\* embedded; and process_request of a well-formed request returns success with
\* all three steps recorded and the session completed.
C17_GeminiFailureTolerated ==
    \A t \in Tasks :
        /\ gemini[t] \in {"none", "mock", "text", "error"}
        /\ \A k \in 1..Len(WorkflowSteps) :
               responses[t][WorkflowSteps[k]].message[2] = "error"
                   => responses[t][WorkflowSteps[k]].success
        /\ (pc[t] = "returned" /\ WellFormed(req[t])) =>
               /\ result[t].success
               /\ active_sessions[session_id[t]].status = "completed"
               /\ active_sessions[session_id[t]].steps_completed = WorkflowSteps

\* A call in which all four Gemini calls failed has returned its plan.
C17_Witness ==
    \E t \in Tasks :
        /\ pc[t] = "returned"
        /\ result[t].success
        /\ result[t].message[2] = "error"
        /\ \A k \in 1..Len(WorkflowSteps) :
               responses[t][WorkflowSteps[k]].message[2] = "error"

IsSuffix(xs, ys) ==
    IF Len(xs) > Len(ys) THEN FALSE
    ELSE SubSeq(ys, Len(ys) - Len(xs) + 1, Len(ys)) = xs

\* C18: when modify_plan answers "Plan modified successfully", the session's
\* request reflects the modification (new destination preferences, the new
\* budget, or the new special requirements) and the session's status is
\* "modified".
C18_ModificationApplied ==
    (session_call.op = "modify_plan" /\ session_call.response.success) =>
        LET session == active_sessions[session_call.session_id]
            modifications == session_call.modifications
        IN  /\ session.status = "modified"
            /\ CASE modifications.key = "destination" ->
                        IsSuffix(modifications.value,
                                 session.request.destination_preferences)
                 [] modifications.key = "budget" ->
                        session.request.budget = modifications.value
                 [] modifications.key = "requirements" ->
                        IsSuffix(modifications.value,
                                 session.request.special_requirements)

DestinationCallReturned ==
    tool.op = "DestinationAgent.process_request" /\ tool.returned

\* C19: for every TravelMood and BudgetLevel, with no preferences and no
\* special requirements, DestinationAgent.process_request returns success
\* with at least one recommendation, so recommendations[0] exists.
C19_AlwaysARecommendation ==
    DestinationCallReturned =>
        /\ tool.response.success
        /\ Len(tool.recommendations) >= 1

\* The call for which no destination suits both mood and budget has returned
\* (adventure on a budget: the only adventure destination is a luxury one).
C19_Witness ==
    /\ DestinationCallReturned
    /\ tool.request.mood = "adventure"
    /\ tool.request.budget = "budget"
    /\ Len(tool.recommendations) >= 1

\* C20: every recommended destination is affordable: its budget_range is at
\* most the user's budget in the order budget < moderate < luxury.
C20_RecommendationsAffordable ==
    DestinationCallReturned =>
        \A i \in 1..Len(tool.recommendations) :
            budget_hierarchy(tool.recommendations[i].destination.budget_range)
                <= budget_hierarchy(tool.request.budget)

ReturnToVillageSquare == available_choices("forest_path")[3]

\* C21: in exploration mode, choosing "Return to village square" while on the
\* forest path puts the player back in the village square: current_scene
\* becomes "village_square" and the player's location "Starting Village".
C21_ReturnToVillageSquare ==
    [][(/\ runner.current_scene = "forest_path"
        /\ runner'.story.choice = ReturnToVillageSquare)
           => /\ runner'.current_scene = "village_square"
              /\ runner'.location = "Starting Village"]_vars

\* The scene a numbered choice leads to; the dice of the random event do not
\* move the player.
scene_of_choice(scene, n) ==
    handle_exploration_choice([RunnerNew EXCEPT !.current_scene = scene],
                              available_choices(scene)[n], 1, 1).current_scene

\* The scenes some sequence of numbered choices leads to from the scenes seen.
RECURSIVE scenes_reachable(_)
scenes_reachable(seen) ==
    LET more == seen \cup UNION { { scene_of_choice(scene, n) :
                                       n \in 1..Len(available_choices(scene)) } :
                                   scene \in seen }
    IN  IF more = seen THEN seen ELSE scenes_reachable(more)

\* C22: each of the five scenes with a choice list is reachable from the
\* starting scene village_square through some sequence of numbered choices in
\* exploration mode.
C22_EverySceneReachable ==
    (/\ runner.loop = "looping"
     /\ runner.game_mode = "exploration"
     /\ runner.current_scene = "village_square")
        => Scenes \subseteq scenes_reachable({runner.current_scene})

=============================================================================
